---------------------------- MODULE Spec2Model ----------------------------
(***************************************************************************)
(* Model of the meal-plan generator of befitlab_api_v2.py: the in-memory   *)
(* ledger (days, meals, items), the pantry and shopping list, the event    *)
(* log, and one action per HTTP handler.                                   *)
(*                                                                         *)
(* Numbers.  The code computes in floats.  The model computes in integers  *)
(* of one thousandth of the code's unit (milli-grams, milli-kcal), with    *)
(* floor division; per-100g values and day targets are whole units.        *)
(*                                                                         *)
(* Strings.  A tag such as rol_principal or permitido_comidas is a string  *)
(* whose comma separated words are given by Words; the substring tests of  *)
(* the code (str.contains) are decided on these words by StrContains.      *)
(* The slot key "media_mañana" is written media_manana.                    *)
(*                                                                         *)
(* Objects.  A Python item dict is shared by reference between a meal's    *)
(* item list and the lookup meal_items: objs is the heap of item dicts, a  *)
(* meal's items is a sequence of references into objs and meal_items maps  *)
(* an item id to a reference.                                              *)
(***************************************************************************)
EXTENDS Integers, Sequences, FiniteSets, TLC

VARIABLES foods_master, foods_custom, days, meals_by_day, objs, meal_items,
          pantry, shopping, learning_events,
          next_meal_id, next_item_id, next_pantry_id, next_shop_id,
          next_custom_id, last, calls, sizer, probe, threads

vars == << foods_master, foods_custom, days, meals_by_day, objs, meal_items,
           pantry, shopping, learning_events,
           next_meal_id, next_item_id, next_pantry_id, next_shop_id,
           next_custom_id, last, calls, sizer, probe, threads >>

\* ------------------------------------------------------------------ bounds
\* a behaviour makes at most this many handler calls
MaxCalls == 4
\* per-100g values of the portion sizer's inputs range over 0..MaxPer100
MaxPer100 == 3
\* the day targets given to meal_targets range over 0..MaxDayTarget per axis
MaxDayTarget == 3

\* ------------------------------------------------------- program constants
TRAIN_TARGET == [kcal |-> 2300, protein |-> 154, carbs |-> 278, fat |-> 64]
REST_TARGET == [kcal |-> 1900, protein |-> 151, carbs |-> 157, fat |-> 74]

MEALS == << "desayuno", "media_manana", "almuerzo", "merienda", "cena",
            "postre_almuerzo", "postre_cena" >>

\* the weights of the code, in thousandths
MEAL_WEIGHTS == [desayuno |-> 220, media_manana |-> 100, almuerzo |-> 280,
                 merienda |-> 100, cena |-> 250, postre_almuerzo |-> 25,
                 postre_cena |-> 25]

\* MEAL_WEIGHTS.get(meal_key, 0.15)
DefaultWeight == 150

\* clamp bounds of grams_for_role and its fixed fallback, in grams
MinGrams == 10
MaxGrams == 400
FallbackGrams == 50
\* clamp bounds of recalc_adjusted_keep_targets, in grams
MaxAdjusted == 9999
\* the threshold 1e-6 kcal of recalc_adjusted_keep_targets is below one
\* thousandth: non_treat_kcal > 1e-6 is non_treat_kcal > 0 in thousandths
Epsilon == 0

\* ---------------------------------------------------------------- helpers
\* variant: an accumulator that does not start from zero
macro_dict_offset == [kcal |-> 1, protein |-> 0, carbs |-> 0, fat |-> 0]

macro_dict == [kcal |-> 0, protein |-> 0, carbs |-> 0, fat |-> 0]

Max2(a, b) == IF a >= b THEN a ELSE b
Min2(a, b) == IF a <= b THEN a ELSE b

clamp(x, lo, hi) == Max2(lo, Min2(hi, x))

day_target(is_training) == IF is_training THEN TRAIN_TARGET ELSE REST_TARGET

\* dict.get(key, default)
Get(d, key, default) == IF key \in DOMAIN d THEN d[key] ELSE default

\* food: a food dict; grams in thousandths; the result in thousandths
food_macros_for_grams(food, grams) ==
    [kcal |-> (Get(food, "kcal_100g", 0) * grams) \div 100,
     protein |-> (Get(food, "proteina_100g", 0) * grams) \div 100,
     carbs |-> (Get(food, "hidratos_100g", 0) * grams) \div 100,
     fat |-> (Get(food, "grasas_100g", 0) * grams) \div 100]

add_macros(a, b) ==
    [kcal |-> a.kcal + b.kcal, protein |-> a.protein + b.protein,
     carbs |-> a.carbs + b.carbs, fat |-> a.fat + b.fat]

\* items: a sequence of item dicts
RECURSIVE sum_items_macros(_, _)
sum_items_macros(items, key_grams) ==
    IF items = << >> THEN macro_dict
    ELSE add_macros(food_macros_for_grams(Head(items).food, Head(items)[key_grams]),
                    sum_items_macros(Tail(items), key_grams))

\* ------------------------------------------------------------- strings
\* the comma separated words of the tags the model uses
Words(s) ==
    CASE s = "" -> {}
      [] s = "main" -> {"desayuno", "media_manana", "almuerzo", "merienda", "cena"}
      [] s = "all" -> {"desayuno", "media_manana", "almuerzo", "merienda", "cena",
                       "postre_almuerzo", "postre_cena"}
      [] s = "proteina,grasa" -> {"proteina", "grasa"}
      [] OTHER -> {s}

\* needle is a substring of the word w (the model's vocabulary)
SubWord(needle, w) ==
    \/ needle = w
    \/ << needle, w >> \in { << "almuerzo", "postre_almuerzo" >>,
                             << "cena", "postre_cena" >>,
                             << "postre", "postre_almuerzo" >>,
                             << "postre", "postre_cena" >> }

\* Series.str.contains(needle, case=False) on one value
StrContains(hay, needle) ==
    needle = "" \/ \E w \in Words(hay) : SubWord(needle, w)

\* str.startswith("postre") on a meal key
StartsWithPostre(mk) == mk \in {"postre_almuerzo", "postre_cena"}

\* ---------------------------------------------------------------- catalog
(***************************************************************************)
(* The rows of the CSV file, as read by pd.read_csv.  id is the file's id  *)
(* column, which pick_food returns; key is the fid load_master derives     *)
(* from the row ("fresh:" + nombre, no row here has an ean).  The file is  *)
(* outside the repository: the rows are an input.  Its id column is taken  *)
(* to hold the derived keys, the one case in which get_food finds a food   *)
(* pick_food returned once foods_master is loaded.  avena is allowed at    *)
(* desayuno only, so the desayuno carb pick has two candidates.            *)
(***************************************************************************)
CsvRows ==
    << [id |-> "fresh:pollo", key |-> "fresh:pollo", nombre |-> "pollo",
        rol_principal |-> "proteina", permitido_comidas |-> "main",
        kcal_100g |-> 165, proteina_100g |-> 31, hidratos_100g |-> 0, grasas_100g |-> 4],
       [id |-> "fresh:arroz", key |-> "fresh:arroz", nombre |-> "arroz",
        rol_principal |-> "hidrato", permitido_comidas |-> "all",
        kcal_100g |-> 130, proteina_100g |-> 3, hidratos_100g |-> 28, grasas_100g |-> 0],
       [id |-> "fresh:aceite", key |-> "fresh:aceite", nombre |-> "aceite",
        rol_principal |-> "grasa", permitido_comidas |-> "all",
        kcal_100g |-> 884, proteina_100g |-> 0, hidratos_100g |-> 0, grasas_100g |-> 100],
       [id |-> "fresh:avena", key |-> "fresh:avena", nombre |-> "avena",
        rol_principal |-> "hidrato", permitido_comidas |-> "desayuno",
        kcal_100g |-> 389, proteina_100g |-> 17, hidratos_100g |-> 66, grasas_100g |-> 7] >>

Range(s) == { s[i] : i \in DOMAIN s }

\* the food dict load_master stores under fid for a row
MasterFood(r) ==
    [id |-> r.key, name |-> r.nombre, kcal_100g |-> r.kcal_100g,
     proteina_100g |-> r.proteina_100g, hidratos_100g |-> r.hidratos_100g,
     grasas_100g |-> r.grasas_100g, rol_principal |-> r.rol_principal,
     permitido_comidas |-> r.permitido_comidas]

\* foods_master after load_master: fid -> food dict
LoadedMaster == { MasterFood(r) : r \in Range(CsvRows) }

\* the food dict pick_food builds from a row of the data frame
PickedFood(r) ==
    [id |-> r.id, name |-> r.nombre, kcal_100g |-> r.kcal_100g,
     proteina_100g |-> r.proteina_100g, hidratos_100g |-> r.hidratos_100g,
     grasas_100g |-> r.grasas_100g, rol_principal |-> r.rol_principal,
     permitido_comidas |-> r.permitido_comidas]

\* pick_food on a data frame with these rows: the set of foods the shuffle
\* can put first (empty: df.iloc[0] raises IndexError)
pick_from(rows, meal_key, role) ==
    LET byRole == { r \in rows : StrContains(r.rol_principal, role) }
        bySlot == { r \in byRole : StrContains(r.permitido_comidas, meal_key) }
        df == IF bySlot = {} THEN byRole ELSE bySlot
    IN  { PickedFood(r) : r \in df }

\* pick_food on the data frame of the CSV file
pick_food(meal_key, role) == pick_from(Range(CsvRows), meal_key, role)

\* variant: the portion sizer without the lower bound of its clamp
grams_for_role_no_floor(food, role, target_macros) ==
    LET isP == StrContains(role, "proteina")
        isG == StrContains(role, "grasa")
        base == IF isP THEN Get(food, "proteina_100g", 0)
                ELSE IF isG THEN Get(food, "grasas_100g", 0)
                ELSE Get(food, "hidratos_100g", 0)
        goal == IF isP THEN target_macros.protein
                ELSE IF isG THEN target_macros.fat
                ELSE target_macros.carbs
        kcal100 == Get(food, "kcal_100g", 0)
    IN  IF base <= 0
        THEN IF kcal100 <= 0 THEN FallbackGrams * 1000
             ELSE Min2(MaxGrams * 1000, (target_macros.kcal * 100) \div kcal100)
        ELSE Min2(MaxGrams * 1000, (goal * 100) \div base)

\* variant: the portion sizer without the kcal fallback
grams_for_role_no_kcal(food, role, target_macros) ==
    LET isP == StrContains(role, "proteina")
        isG == StrContains(role, "grasa")
        base == IF isP THEN Get(food, "proteina_100g", 0)
                ELSE IF isG THEN Get(food, "grasas_100g", 0)
                ELSE Get(food, "hidratos_100g", 0)
        goal == IF isP THEN target_macros.protein
                ELSE IF isG THEN target_macros.fat
                ELSE target_macros.carbs
    IN  IF base <= 0 THEN FallbackGrams * 1000
        ELSE clamp((goal * 100) \div base, MinGrams * 1000, MaxGrams * 1000)

\* grams_for_role, in thousandths of a gram; target_macros in thousandths
grams_for_role(food, role, target_macros) ==
    LET isP == StrContains(role, "proteina")
        isG == StrContains(role, "grasa")
        base == IF isP THEN Get(food, "proteina_100g", 0)
                ELSE IF isG THEN Get(food, "grasas_100g", 0)
                ELSE Get(food, "hidratos_100g", 0)
        goal == IF isP THEN target_macros.protein
                ELSE IF isG THEN target_macros.fat
                ELSE target_macros.carbs
        kcal100 == Get(food, "kcal_100g", 0)
    IN  IF base <= 0
        THEN IF kcal100 <= 0 THEN FallbackGrams * 1000
             ELSE clamp((target_macros.kcal * 100) \div kcal100,
                        MinGrams * 1000, MaxGrams * 1000)
        ELSE clamp((goal * 100) \div base, MinGrams * 1000, MaxGrams * 1000)

\* meal_targets, in thousandths
\* variant: meal targets that take the default weight for every slot
meal_targets_default_weight(day_t, meal_key) ==
    [kcal |-> day_t.kcal * DefaultWeight, protein |-> day_t.protein * DefaultWeight,
     carbs |-> day_t.carbs * DefaultWeight, fat |-> day_t.fat * DefaultWeight]

meal_targets(day_t, meal_key) ==
    LET w == Get(MEAL_WEIGHTS, meal_key, DefaultWeight)
    IN  [kcal |-> day_t.kcal * w, protein |-> day_t.protein * w,
         carbs |-> day_t.carbs * w, fat |-> day_t.fat * w]

\* compute_role
compute_role(food) ==
    IF Get(food, "rol_principal", "") = "" THEN "hidrato" ELSE food.rol_principal

\* ------------------------------------------------------------------ state
(***************************************************************************)
(* A handler runs on a record of the program's globals and returns the     *)
(* record it leaves behind; ret is "ok", or the status of the exception    *)
(* that ended the handler ("400", "404", "500"), after which no further    *)
(* statement of the handler has an effect.                                 *)
(***************************************************************************)
\* no value has been produced by the request yet
NoMid == [set |-> FALSE]

Cur ==
    [foods_master |-> foods_master, foods_custom |-> foods_custom,
     days |-> days, meals_by_day |-> meals_by_day, objs |-> objs,
     meal_items |-> meal_items, pantry |-> pantry, shopping |-> shopping,
     learning_events |-> learning_events, next_meal_id |-> next_meal_id,
     next_item_id |-> next_item_id, next_pantry_id |-> next_pantry_id,
     next_shop_id |-> next_shop_id, next_custom_id |-> next_custom_id,
     ret |-> "ok", mid |-> NoMid]

\* raise HTTPException(code) / an unhandled exception (code "500")
Raise(st, code) == IF st.ret = "ok" THEN [st EXCEPT !.ret = code] ELSE st

\* d[k] = v on a dict
Put(d, k, v) == [x \in DOMAIN d \cup {k} |-> IF x = k THEN v ELSE d[x]]

\* the elements of a dict in key order (ids are issued in increasing order)
RECURSIVE ValuesFrom(_, _)
ValuesFrom(d, ks) ==
    IF ks = {} THEN << >>
    ELSE LET k == CHOOSE x \in ks : \A y \in ks : x <= y
         IN  << d[k] >> \o ValuesFrom(d, ks \ {k})

Values(d) == ValuesFrom(d, DOMAIN d)

\* load_master: fills foods_master once
load_master(st) ==
    IF st.ret # "ok" \/ st.foods_master # {} THEN st
    ELSE [st EXCEPT !.foods_master = LoadedMaster]

\* the foods get_food can return for food_id (empty: HTTPException 404)
get_food(st, food_id) ==
    LET m == { f \in st.foods_master : f.id = food_id }
    IN  IF m # {} THEN m ELSE { f \in st.foods_custom : f.id = food_id }

\* pantry_status_for_food: the status of the first pantry entry of the food
pantry_status_for_food(st, food_id) ==
    LET hits == { i \in DOMAIN st.pantry : st.pantry[i].food.id = food_id }
    IN  IF hits = {} THEN "missing"
        ELSE st.pantry[CHOOSE i \in hits : \A j \in hits : i <= j].status

\* variant: the meals of a day created in the reverse order of MEALS
create_empty_meals_reversed(st, day_date) ==
    LET meals == [i \in 1..Len(MEALS) |->
                    [id |-> st.next_meal_id + i - 1, day_date |-> day_date,
                     key |-> MEALS[Len(MEALS) + 1 - i], planned_macros |-> macro_dict,
                     adjusted_macros |-> macro_dict, items |-> << >>]]
    IN  [st EXCEPT !.meals_by_day = Put(@, day_date, meals),
                   !.next_meal_id = @ + Len(MEALS)]

\* create_empty_meals
create_empty_meals(st, day_date) ==
    LET meals == [i \in 1..Len(MEALS) |->
                    [id |-> st.next_meal_id + i - 1, day_date |-> day_date,
                     key |-> MEALS[i], planned_macros |-> macro_dict,
                     adjusted_macros |-> macro_dict, items |-> << >>]]
    IN  [st EXCEPT !.meals_by_day = Put(@, day_date, meals),
                   !.next_meal_id = @ + Len(MEALS)]

\* ensure_day
ensure_day(st, day_date) ==
    IF st.ret # "ok" THEN st
    ELSE LET s1 == IF day_date \in DOMAIN st.days THEN st
                   ELSE [st EXCEPT !.days = Put(@, day_date,
                            [day_date |-> day_date, is_training |-> TRUE,
                             planned |-> macro_dict, adjusted |-> macro_dict,
                             consumed |-> macro_dict])]
         IN  IF day_date \in DOMAIN s1.meals_by_day THEN s1
             ELSE create_empty_meals(s1, day_date)

\* the item dicts of a list of references
Items(st, refs) == [i \in DOMAIN refs |-> st.objs[refs[i]]]

\* the confirmed items of a meal, each with planned_g replaced by consumed_g
ConfItems(items) ==
    LET conf == SelectSeq(items, LAMBDA it : it.is_confirmed)
    IN  [i \in DOMAIN conf |-> [conf[i] EXCEPT !.planned_g = conf[i].consumed_g]]

RECURSIVE SumSeq(_)
SumSeq(ms) == IF ms = << >> THEN macro_dict ELSE add_macros(SumSeq(Tail(ms)), Head(ms))

\* recompute_day
recompute_day(st, day_date) ==
    IF st.ret # "ok" THEN st
    ELSE LET meals == st.meals_by_day[day_date]
             planned_m == [i \in DOMAIN meals |->
                             sum_items_macros(Items(st, meals[i].items), "planned_g")]
             adjusted_m == [i \in DOMAIN meals |->
                             sum_items_macros(Items(st, meals[i].items), "adjusted_g")]
             consumed_m == [i \in DOMAIN meals |->
                             sum_items_macros(ConfItems(Items(st, meals[i].items)), "planned_g")]
         IN  [st EXCEPT
                !.meals_by_day[day_date] =
                    [i \in DOMAIN meals |->
                        [meals[i] EXCEPT !.planned_macros = planned_m[i],
                                         !.adjusted_macros = adjusted_m[i]]],
                !.days[day_date] =
                    [@ EXCEPT !.planned = SumSeq(planned_m),
                              !.adjusted = SumSeq(adjusted_m),
                              !.consumed = SumSeq(consumed_m)]]

\* ensure_shopping_for_item
\* variant: a shopping entry for every call, pending entry or not
ensure_shopping_no_dedupe(st, food_id) ==
    IF st.ret # "ok" THEN st
    ELSE IF pantry_status_for_food(st, food_id) = "available" THEN st
    ELSE IF get_food(st, food_id) = {} THEN Raise(st, "404")
    ELSE LET f == CHOOSE x \in get_food(st, food_id) : TRUE
         IN  [st EXCEPT !.shopping = Put(@, st.next_shop_id,
                            [id |-> st.next_shop_id,
                             food |-> [id |-> f.id, name |-> f.name],
                             qty |-> 1, status |-> "pending"]),
                        !.next_shop_id = @ + 1]

ensure_shopping_for_item(st, food_id) ==
    IF st.ret # "ok" THEN st
    ELSE IF pantry_status_for_food(st, food_id) = "available" THEN st
    ELSE IF \E i \in DOMAIN st.shopping :
                st.shopping[i].food.id = food_id /\ st.shopping[i].status = "pending"
         THEN st
    ELSE IF get_food(st, food_id) = {} THEN Raise(st, "404")
    ELSE LET f == CHOOSE x \in get_food(st, food_id) : TRUE
         IN  [st EXCEPT !.shopping = Put(@, st.next_shop_id,
                            [id |-> st.next_shop_id,
                             food |-> [id |-> f.id, name |-> f.name],
                             qty |-> 1, status |-> "pending"]),
                        !.next_shop_id = @ + 1]

RECURSIVE ensure_shopping_for_all(_, _)
ensure_shopping_for_all(st, items) ==
    IF items = << >> THEN st
    ELSE ensure_shopping_for_all(ensure_shopping_for_item(st, Head(items).food.id),
                                 Tail(items))

RECURSIVE Concat(_)
Concat(ss) == IF ss = << >> THEN << >> ELSE Head(ss) \o Concat(Tail(ss))

\* the references of the items of a day, meal by meal
DayRefs(st, day_date) ==
    Concat([i \in DOMAIN st.meals_by_day[day_date] |->
               st.meals_by_day[day_date][i].items])

RECURSIVE SumKcal(_)
SumKcal(items) ==
    IF items = << >> THEN 0
    ELSE food_macros_for_grams(Head(items).food, Head(items).planned_g).kcal
         + SumKcal(Tail(items))

\* variant: a rebalance that takes treats out of the adjusted plan
Rescaled_treat_dropped(it, remaining, non_treat_kcal) ==
    IF it.is_treat THEN 0
    ELSE IF non_treat_kcal > Epsilon
         THEN clamp((it.planned_g * remaining) \div non_treat_kcal, 0, MaxAdjusted * 1000)
         ELSE clamp(it.planned_g, 0, MaxAdjusted * 1000)

\* variant: a rebalance whose result is not clamped
Rescaled_unclamped(it, remaining, non_treat_kcal) ==
    IF it.is_treat THEN it.planned_g
    ELSE IF non_treat_kcal > Epsilon
         THEN (it.planned_g * remaining) \div non_treat_kcal
         ELSE it.planned_g

\* the adjusted_g recalc_adjusted_keep_targets gives an item
Rescaled(it, remaining, non_treat_kcal) ==
    IF it.is_treat THEN it.planned_g
    ELSE IF non_treat_kcal > Epsilon
         THEN clamp((it.planned_g * remaining) \div non_treat_kcal, 0, MaxAdjusted * 1000)
         ELSE clamp(it.planned_g, 0, MaxAdjusted * 1000)

\* recalc_adjusted_keep_targets
recalc_adjusted_keep_targets(st, day_date) ==
    IF st.ret # "ok" THEN st
    ELSE LET tgt == day_target(st.days[day_date].is_training)
             refs == DayRefs(st, day_date)
             its == Items(st, refs)
             treat_kcal == SumKcal(SelectSeq(its, LAMBDA it : it.is_treat))
             non_treat_kcal == SumKcal(SelectSeq(its, LAMBDA it : ~it.is_treat))
             remaining == Max2(0, tgt.kcal * 1000 - treat_kcal)
             s1 == [st EXCEPT !.objs =
                       [r \in DOMAIN st.objs |->
                           IF r \in Range(refs)
                           THEN [st.objs[r] EXCEPT !.adjusted_g =
                                    Rescaled(st.objs[r], remaining, non_treat_kcal)]
                           ELSE st.objs[r]]]
             s2 == ensure_shopping_for_all(s1, Items(s1, refs))
         IN  recompute_day(s2, day_date)

\* variant: an event log that keeps the latest record only
log_event_latest_only(st, type, id) ==
    IF st.ret # "ok" THEN st
    ELSE [st EXCEPT !.learning_events = << [type |-> type, id |-> id] >>]

\* learning_events.append
log_event(st, type, id) ==
    IF st.ret # "ok" THEN st
    ELSE [st EXCEPT !.learning_events = Append(@, [type |-> type, id |-> id])]

\* --------------------------------------------------------------- handlers
\* the position of the meal with this id: << day_date, index >>, if any
FindMeal(st, meal_id) ==
    { p \in (DOMAIN st.meals_by_day) \X (1..Len(MEALS)) :
        st.meals_by_day[p[1]][p[2]].id = meal_id }

\* the roles generate_day and regenerate_meal fill a slot with
\* variant: three roles for every slot, desserts included
RolesFor_all_slots(mk) == << "proteina", "hidrato", "grasa" >>

RolesFor(mk) ==
    IF StartsWithPostre(mk) THEN << "hidrato", "grasa" >>
    ELSE << "proteina", "hidrato", "grasa" >>

\* the item dict built for a picked or looked-up food
NewItem(st, id, meal_id, f, role, grams, treat, extra) ==
    [id |-> id, meal_id |-> meal_id, food |-> [id |-> f.id, name |-> f.name],
     role |-> role, planned_g |-> grams, adjusted_g |-> grams,
     consumed_g |-> IF treat THEN grams ELSE 0, is_confirmed |-> treat,
     is_extra |-> extra, is_treat |-> treat,
     pantry_status |-> pantry_status_for_food(st, f.id)]

\* variant: the new item put at the front of the meal's list
StoreItem_front(st, dd, mi, item) ==
    LET ref == Len(st.objs) + 1
    IN  [st EXCEPT !.objs = Append(@, item),
                   !.meal_items = Put(@, item.id, ref),
                   !.meals_by_day[dd][mi].items = << ref >> \o @,
                   !.next_item_id = @ + 1]

\* variant: the item is stored and the id counter stays
StoreItem_same_id(st, dd, mi, item) ==
    LET ref == Len(st.objs) + 1
    IN  [st EXCEPT !.objs = Append(@, item),
                   !.meal_items = Put(@, item.id, ref),
                   !.meals_by_day[dd][mi].items = Append(@, ref)]

\* meal_items[id] = item; meal["items"].append(item); _next_item_id += 1
StoreItem(st, dd, mi, item) ==
    LET ref == Len(st.objs) + 1
    IN  [st EXCEPT !.objs = Append(@, item),
                   !.meal_items = Put(@, item.id, ref),
                   !.meals_by_day[dd][mi].items = Append(@, ref),
                   !.next_item_id = @ + 1]

\* one turn of the loop over roles, with the food the shuffle put first;
\* stored is the role written on the item
AddGenerated(st, dd, mi, role, f, stored) ==
    LET m == st.meals_by_day[dd][mi]
        mt == meal_targets(day_target(st.days[dd].is_training), m.key)
        grams == grams_for_role(f, role, mt)
        item == NewItem(st, st.next_item_id, m.id, f, stored, grams, FALSE, FALSE)
    IN  ensure_shopping_for_item(StoreItem(st, dd, mi, item), f.id)

\* the loop of generate_day over the meals and roles left in steps
\* (<< meal index, role >>): the set of states it can end in
RECURSIVE GenerateLoop(_, _, _)
GenerateLoop(st, dd, steps) ==
    IF steps = << >> \/ st.ret # "ok" THEN {st}
    ELSE LET mi == Head(steps)[1]
             role == Head(steps)[2]
             pool == pick_food(st.meals_by_day[dd][mi].key, role)
         IN  IF pool = {} THEN {Raise(st, "500")}
             ELSE UNION { GenerateLoop(AddGenerated(st, dd, mi, role, f, role),
                                       dd, Tail(steps)) : f \in pool }

DaySteps ==
    Concat([i \in 1..Len(MEALS) |->
              [j \in 1..Len(RolesFor(MEALS[i])) |-> << i, RolesFor(MEALS[i])[j] >>]])

\* variant: a generate_day that also takes the day's previous items out of
\* meal_items
generate_day_purging(st, body) ==
    IF st.ret # "ok" THEN {st}
    ELSE IF body.kind # "dict" THEN {Raise(st, "500")}
    ELSE IF body.day_date = "" THEN {Raise(st, "400")}
    ELSE LET dd == body.day_date
             s1 == ensure_day(st, dd)
             old == Range(DayRefs(s1, dd))
             s2 == [s1 EXCEPT !.meals_by_day[dd] =
                                 [i \in DOMAIN @ |-> [@[i] EXCEPT !.items = << >>]],
                              !.meal_items =
                                 [k \in { j \in DOMAIN @ : @[j] \notin old } |-> @[k]]]
         IN  { recalc_adjusted_keep_targets(s, dd) : s \in GenerateLoop(s2, dd, DaySteps) }

\* generate_day(body): body is a dict, or a GenerateDayBody object, which
\* has no get method (AttributeError)
generate_day(st, body) ==
    IF st.ret # "ok" THEN {st}
    ELSE IF body.kind # "dict" THEN {Raise(st, "500")}
    ELSE IF body.day_date = "" THEN {Raise(st, "400")}
    ELSE LET dd == body.day_date
             s1 == ensure_day(st, dd)
             s2 == [s1 EXCEPT !.meals_by_day[dd] =
                       [i \in DOMAIN @ |-> [@[i] EXCEPT !.items = << >>]]]
         IN  { recalc_adjusted_keep_targets(s, dd) : s \in GenerateLoop(s2, dd, DaySteps) }

\* variant: an accept_day that does not create the day
accept_day_log_only(st, dd) == log_event(st, "accept_day", dd)

\* accept_day
accept_day(st, dd) == log_event(ensure_day(st, dd), "accept_day", dd)

\* reject_day
reject_day(st, dd) ==
    generate_day(log_event(ensure_day(st, dd), "reject_day", dd),
                 [kind |-> "GenerateDayBody", day_date |-> dd])

\* the loop of regenerate_meal over the roles left
RECURSIVE RegenerateLoop(_, _, _, _)
RegenerateLoop(st, dd, mi, roles) ==
    IF roles = << >> \/ st.ret # "ok" THEN {st}
    ELSE LET pool == pick_food(st.meals_by_day[dd][mi].key, Head(roles))
         IN  IF pool = {} THEN {Raise(st, "500")}
             ELSE UNION { RegenerateLoop(
                              AddGenerated(st, dd, mi, Head(roles), f, compute_role(f)),
                              dd, mi, Tail(roles)) : f \in pool }

\* variant: a regeneration that empties every meal of the day first
regenerate_meal_whole_day(st, meal_id) ==
    IF FindMeal(st, meal_id) = {} THEN {Raise(st, "404")}
    ELSE LET p == CHOOSE x \in FindMeal(st, meal_id) : TRUE
             dd == p[1]
             mi == p[2]
             s0 == ensure_day(st, dd)
             s1 == [s0 EXCEPT !.meals_by_day[dd] =
                       [i \in DOMAIN @ |-> [@[i] EXCEPT !.items = << >>]]]
         IN  { log_event(recalc_adjusted_keep_targets(s, dd), "regenerate_meal", meal_id) :
                 s \in RegenerateLoop(s1, dd, mi, RolesFor(MEALS[mi])) }

\* regenerate_meal
regenerate_meal(st, meal_id) ==
    IF FindMeal(st, meal_id) = {} THEN {Raise(st, "404")}
    ELSE LET p == CHOOSE x \in FindMeal(st, meal_id) : TRUE
             dd == p[1]
             mi == p[2]
             s1 == [ensure_day(st, dd) EXCEPT !.meals_by_day[dd][mi].items = << >>]
         IN  { log_event(recalc_adjusted_keep_targets(s, dd), "regenerate_meal", meal_id) :
                 s \in RegenerateLoop(s1, dd, mi, RolesFor(MEALS[mi])) }

\* variant: a swap that also resets the item's confirmation
swap_assign_reset(st, ref, f) ==
    LET it == st.objs[ref]
        new == [it EXCEPT !.food = [id |-> f.id, name |-> f.name],
                          !.role = compute_role(f),
                          !.planned_g = it.planned_g,
                          !.adjusted_g = it.planned_g,
                          !.consumed_g = 0,
                          !.is_confirmed = FALSE,
                          !.pantry_status = pantry_status_for_food(st, f.id)]
    IN  [st EXCEPT !.objs[ref] = new, !.mid = [set |-> TRUE, item |-> new]]

\* the assignments of swap_item to the item, before ensure_shopping_for_item
\* and the rebalance; mid keeps the item as assigned
swap_assign(st, ref, f) ==
    LET it == st.objs[ref]
        new == [it EXCEPT !.food = [id |-> f.id, name |-> f.name],
                          !.role = compute_role(f),
                          !.planned_g = it.planned_g,
                          !.adjusted_g = it.planned_g,
                          !.pantry_status = pantry_status_for_food(st, f.id)]
    IN  [st EXCEPT !.objs[ref] = new, !.mid = [set |-> TRUE, item |-> new]]

\* swap_item; the set of states it can end in
swap_item(st, meal_item_id, role) ==
    IF meal_item_id \notin DOMAIN st.meal_items THEN {Raise(st, "404")}
    ELSE LET ref == st.meal_items[meal_item_id]
             it == st.objs[ref]
         IN  IF FindMeal(st, it.meal_id) = {} THEN {Raise(st, "404")}
             ELSE LET p == CHOOSE x \in FindMeal(st, it.meal_id) : TRUE
                      dd == p[1]
                      mk == st.meals_by_day[dd][p[2]].key
                      pool == pick_food(mk, role)
                      Swapped(f) == swap_assign(st, ref, f)
                  IN  IF pool = {} THEN {Raise(st, "500")}
                      ELSE { log_event(
                                 recalc_adjusted_keep_targets(
                                     ensure_shopping_for_item(Swapped(f), f.id), dd),
                                 "swap_item", it.id) : f \in pool }

\* variant: an add_extra that takes the item id before it looks the food up
add_extra_id_first(st, meal_id, food_id, grams, as_treat) ==
    IF FindMeal(st, meal_id) = {} THEN Raise(st, "404")
    ELSE IF get_food(st, food_id) = {}
         THEN Raise([st EXCEPT !.next_item_id = @ + 1], "404")
    ELSE LET p == CHOOSE x \in FindMeal(st, meal_id) : TRUE
             dd == p[1]
             f == CHOOSE x \in get_food(st, food_id) : TRUE
             it_id == st.next_item_id
             item == NewItem(st, it_id, st.meals_by_day[dd][p[2]].id, f,
                             compute_role(f), grams, as_treat, TRUE)
             s1 == ensure_shopping_for_item(StoreItem(st, dd, p[2], item), f.id)
         IN  log_event(recalc_adjusted_keep_targets(s1, dd), "add_extra", it_id)

\* add_extra; grams in thousandths
add_extra(st, meal_id, food_id, grams, as_treat) ==
    IF FindMeal(st, meal_id) = {} THEN Raise(st, "404")
    ELSE IF get_food(st, food_id) = {} THEN Raise(st, "404")
    ELSE LET p == CHOOSE x \in FindMeal(st, meal_id) : TRUE
             dd == p[1]
             f == CHOOSE x \in get_food(st, food_id) : TRUE
             it_id == st.next_item_id
             item == NewItem(st, it_id, st.meals_by_day[dd][p[2]].id, f,
                             compute_role(f), grams, as_treat, TRUE)
             s1 == ensure_shopping_for_item(StoreItem(st, dd, p[2], item), f.id)
         IN  log_event(recalc_adjusted_keep_targets(s1, dd), "add_extra", it_id)

\* variant: a confirmation that rebalances the day instead of only
\* recomputing it
confirm_item_rebalancing(st, meal_item_id, consumed_g, is_confirmed) ==
    IF meal_item_id \notin DOMAIN st.meal_items THEN Raise(st, "404")
    ELSE LET ref == st.meal_items[meal_item_id]
             s1 == [st EXCEPT !.objs[ref] =
                       [@ EXCEPT !.consumed_g = consumed_g,
                                 !.is_confirmed = is_confirmed]]
             found == FindMeal(s1, s1.objs[ref].meal_id)
         IN  IF found = {} THEN Raise(s1, "404")
             ELSE LET dd == (CHOOSE x \in found : TRUE)[1]
                  IN  log_event(recalc_adjusted_keep_targets(s1, dd),
                                "confirm_item", s1.objs[ref].id)

\* confirm_item; consumed_g in thousandths
confirm_item(st, meal_item_id, consumed_g, is_confirmed) ==
    IF meal_item_id \notin DOMAIN st.meal_items THEN Raise(st, "404")
    ELSE LET ref == st.meal_items[meal_item_id]
             s1 == [st EXCEPT !.objs[ref] =
                       [@ EXCEPT !.consumed_g = consumed_g,
                                 !.is_confirmed = is_confirmed]]
             found == FindMeal(s1, s1.objs[ref].meal_id)
         IN  IF found = {} THEN Raise(s1, "404")
             ELSE LET dd == (CHOOSE x \in found : TRUE)[1]
                  IN  log_event(recompute_day(s1, dd), "confirm_item", s1.objs[ref].id)

\* set_training
set_training(st, dd, is_training) ==
    LET s1 == ensure_day(st, dd)
    IN  recalc_adjusted_keep_targets(
            [s1 EXCEPT !.days[dd].is_training = is_training], dd)

\* get_day and get_day_meals: the day is created on first access
get_day(st, dd) == ensure_day(st, dd)

\* search_foods: loads the master catalog; the matches are not state
search_foods(st) == load_master(st)

\* the response of pantry_upsert, {"ok": True, "id": pid}, kept in mid
Returned(st, pid) == [st EXCEPT !.mid = [set |-> TRUE, id |-> pid]]

\* a variant of pantry_upsert without the search for an existing entry
pantry_upsert_always_new(st, food_id, status, qty, unit) ==
    IF get_food(st, food_id) = {} THEN Raise(st, "404")
    ELSE LET f == CHOOSE x \in get_food(st, food_id) : TRUE
             pid == st.next_pantry_id
         IN  Returned(ensure_shopping_for_item(
                      [st EXCEPT !.pantry = Put(@, pid,
                                      [id |-> pid,
                                       food |-> [id |-> f.id, name |-> f.name],
                                       status |-> status, qty |-> qty,
                                       unit |-> unit]),
                                 !.next_pantry_id = @ + 1], f.id), pid)

\* pantry_upsert: the first entry of the food is updated in place, or a new
\* entry is stored under the next pantry id; then the shopping deriver runs
pantry_upsert(st, food_id, status, qty, unit) ==
    IF get_food(st, food_id) = {} THEN Raise(st, "404")
    ELSE LET f == CHOOSE x \in get_food(st, food_id) : TRUE
             hits == { i \in DOMAIN st.pantry : st.pantry[i].food.id = f.id }
         IN  IF hits # {}
             THEN LET pid == CHOOSE i \in hits : \A j \in hits : i <= j
                  IN  Returned(ensure_shopping_for_item(
                          [st EXCEPT !.pantry[pid].status = status,
                                     !.pantry[pid].qty = qty,
                                     !.pantry[pid].unit = unit], f.id), pid)
             ELSE LET pid == st.next_pantry_id
                  IN  Returned(ensure_shopping_for_item(
                          [st EXCEPT !.pantry = Put(@, pid,
                                      [id |-> pid,
                                       food |-> [id |-> f.id, name |-> f.name],
                                       status |-> status, qty |-> qty,
                                       unit |-> unit]),
                                 !.next_pantry_id = @ + 1], f.id), pid)

\* get_day_meals: ensure_day, then the day's list of meals is returned
get_day_meals(st, dd) == ensure_day(st, dd)

\* infer_role: the first of proteina, hidrato, grasa holding the largest
\* value (the sort is stable)
infer_role(p, c, g) ==
    IF p >= c /\ p >= g THEN "proteina"
    ELSE IF c >= g THEN "hidrato"
    ELSE "grasa"

\* f"custom:{_next_custom_id}"
CustomId(n) == "custom:" \o ToString(n)

\* custom_food_manual
custom_food_manual(st, body) ==
    LET cid == CustomId(st.next_custom_id)
        food == [id |-> cid, name |-> body.nombre,
                 kcal_100g |-> body.kcal_100g,
                 proteina_100g |-> body.proteina_100g,
                 hidratos_100g |-> body.hidratos_100g,
                 grasas_100g |-> body.grasas_100g,
                 rol_principal |-> infer_role(body.proteina_100g, body.hidratos_100g,
                                              body.grasas_100g),
                 permitido_comidas |-> body.permitido_comidas]
    IN  [st EXCEPT !.next_custom_id = @ + 1,
                   !.foods_custom = { f \in @ : f.id # cid } \cup {food}]

\* variant: a shopping_add that makes a new pending entry every time
shopping_add_new_row(st, food_id, qty) ==
    IF get_food(st, food_id) = {} THEN Raise(st, "404")
    ELSE LET f == CHOOSE x \in get_food(st, food_id) : TRUE
         IN  [st EXCEPT !.shopping = Put(@, st.next_shop_id,
                             [id |-> st.next_shop_id,
                              food |-> [id |-> f.id, name |-> f.name],
                              qty |-> qty, status |-> "pending"]),
                        !.next_shop_id = @ + 1]

\* shopping_add: the first pending entry of the food takes the quantity,
\* otherwise a new pending entry is made
shopping_add(st, food_id, qty) ==
    IF get_food(st, food_id) = {} THEN Raise(st, "404")
    ELSE LET f == CHOOSE x \in get_food(st, food_id) : TRUE
             hits == { i \in DOMAIN st.shopping :
                         st.shopping[i].food.id = f.id
                         /\ st.shopping[i].status = "pending" }
         IN  IF hits # {}
             THEN LET sid == CHOOSE i \in hits : \A j \in hits : i <= j
                  IN  [st EXCEPT !.shopping[sid].qty = @ + qty]
             ELSE [st EXCEPT !.shopping = Put(@, st.next_shop_id,
                                 [id |-> st.next_shop_id,
                                  food |-> [id |-> f.id, name |-> f.name],
                                  qty |-> qty, status |-> "pending"]),
                             !.next_shop_id = @ + 1]

\* shopping_mark_bought
shopping_mark_bought(st, item_id) ==
    IF item_id \notin DOMAIN st.shopping THEN Raise(st, "404")
    ELSE [st EXCEPT !.shopping[item_id].status = "bought"]

\* ----------------------------------------------------------------- inputs
Dates == {"d1"}

\* the dates GET /day is asked for
ReadDates == {"d1", "d2"}
\* regenerate_meal: the first day's desayuno and postre_cena, and an id no
\* meal has
RegenInputs == {1, 7, 99}
\* swap_item << item id, role >>: the first item ever created, a role no
\* food has, an id no item has
SwapInputs == { << 1, "hidrato" >>, << 1, "fibra" >>, << 99, "hidrato" >> }
\* add_extra << meal id, food id, grams in thousandths, as_treat >>: a treat,
\* a plain extra above the rebalancer's clamp, an id no meal has, and an id
\* no food has
ExtraInputs ==
    { << 1, "fresh:aceite", 40000, TRUE >>, << 5, "fresh:arroz", 12000000, FALSE >>,
      << 99, "fresh:aceite", 40000, TRUE >>, << 1, "fresh:nada", 40000, FALSE >> }
\* confirm_item << item id, consumed_g in thousandths, is_confirmed >>
ConfirmInputs ==
    { << 1, 40000, TRUE >>, << 1, 0, FALSE >>, << 99, 40000, TRUE >> }
\* pantry_upsert << food id, status, qty, unit >>
PantryInputs == { << "fresh:aceite", "available", 1, "unit" >>,
                  << "fresh:aceite", "out", 2, "kg" >>,
                  << "fresh:nada", "available", 1, "unit" >> }

NoArgs ==
    [day |-> "", id |-> 0, food |-> "", role |-> "", grams |-> 0, flag |-> FALSE,
     unit |-> ""]

\* the calls left to a behaviour
CallRoom == calls < MaxCalls

\* the handler's result becomes the program's state; last records the call
Commit(st, op, args) ==
    /\ foods_master' = st.foods_master
    /\ foods_custom' = st.foods_custom
    /\ days' = st.days
    /\ meals_by_day' = st.meals_by_day
    /\ objs' = st.objs
    /\ meal_items' = st.meal_items
    /\ pantry' = st.pantry
    /\ shopping' = st.shopping
    /\ learning_events' = st.learning_events
    /\ next_meal_id' = st.next_meal_id
    /\ next_item_id' = st.next_item_id
    /\ next_pantry_id' = st.next_pantry_id
    /\ next_shop_id' = st.next_shop_id
    /\ next_custom_id' = st.next_custom_id
    /\ last' = [op |-> op, ret |-> st.ret, args |-> args, mid |-> st.mid]
    /\ calls' = calls + 1
    /\ UNCHANGED << sizer, probe, threads >>

LedgerInit ==
    /\ foods_master = {}
    /\ foods_custom = {}
    /\ days = << >>
    /\ meals_by_day = << >>
    /\ objs = << >>
    /\ meal_items = << >>
    /\ pantry = << >>
    /\ shopping = << >>
    /\ learning_events = << >>
    /\ next_meal_id = 1
    /\ next_item_id = 1
    /\ next_pantry_id = 1
    /\ next_shop_id = 1
    /\ next_custom_id = 1
    /\ last = [op |-> "start", ret |-> "ok", args |-> NoArgs, mid |-> NoMid]
    /\ calls = 0

\* no request is being served
NoThreads == << >>

Init ==
    /\ LedgerInit
    /\ sizer = [phase |-> "idle"]
    /\ probe = [phase |-> "idle"]
    /\ threads = NoThreads

\* a handler with one outcome
Call(st, op, args) == Commit(st, op, args)

SearchFoods ==
    /\ CallRoom
    /\ Call(search_foods(Cur), "search_foods", NoArgs)

GetDay ==
    /\ CallRoom
    /\ \E dd \in ReadDates : Call(get_day(Cur, dd), "get_day", [NoArgs EXCEPT !.day = dd])

SetTraining ==
    /\ CallRoom
    /\ \E dd \in Dates, b \in BOOLEAN :
        Call(set_training(Cur, dd, b), "set_training",
             [NoArgs EXCEPT !.day = dd, !.flag = b])

GenerateDay ==
    /\ CallRoom
    /\ \E dd \in Dates :
        /\ \E st \in generate_day(Cur, [kind |-> "dict", day_date |-> dd]) :
              Commit(st, "generate_day", [NoArgs EXCEPT !.day = dd])

AcceptDay ==
    /\ CallRoom
    /\ \E dd \in Dates :
        /\ Call(accept_day(Cur, dd), "accept_day", [NoArgs EXCEPT !.day = dd])

RejectDay ==
    /\ CallRoom
    /\ \E dd \in Dates :
        /\ \E st \in reject_day(Cur, dd) :
              Commit(st, "reject_day", [NoArgs EXCEPT !.day = dd])

RegenerateMeal ==
    /\ CallRoom
    /\ \E id \in RegenInputs :
        /\ \E st \in regenerate_meal(Cur, id) :
              Commit(st, "regenerate_meal", [NoArgs EXCEPT !.id = id])

SwapItem ==
    /\ CallRoom
    /\ \E a \in SwapInputs :
        /\ \E st \in swap_item(Cur, a[1], a[2]) :
              Commit(st, "swap_item", [NoArgs EXCEPT !.id = a[1], !.role = a[2]])

AddExtra ==
    /\ CallRoom
    /\ \E a \in ExtraInputs :
        /\ Call(add_extra(Cur, a[1], a[2], a[3], a[4]), "add_extra",
                [NoArgs EXCEPT !.id = a[1], !.food = a[2], !.grams = a[3], !.flag = a[4]])

ConfirmItem ==
    /\ CallRoom
    /\ \E a \in ConfirmInputs :
        /\ Call(confirm_item(Cur, a[1], a[2], a[3]), "confirm_item",
                [NoArgs EXCEPT !.id = a[1], !.grams = a[2], !.flag = a[3]])

PantryUpsert ==
    /\ CallRoom
    /\ \E a \in PantryInputs :
        Call(pantry_upsert(Cur, a[1], a[2], a[3], a[4]), "pantry_upsert",
             [NoArgs EXCEPT !.food = a[1], !.role = a[2], !.grams = a[3],
                            !.unit = a[4]])

Next ==
    \/ SearchFoods
    \/ GetDay
    \/ SetTraining
    \/ GenerateDay
    \/ AcceptDay
    \/ RejectDay
    \/ RegenerateMeal
    \/ SwapItem
    \/ AddExtra
    \/ ConfirmItem

Spec == Init /\ [][Next]_vars

\* ------------------------------------------------- pantry, shopping, foods
(***************************************************************************)
(* The same program with the requests of the pantry, the shopping list and *)
(* the manual foods, and with grams of either sign: AddExtraBody.grams and *)
(* ConfirmItemBody.consumed_g are plain floats.                            *)
(***************************************************************************)
\* add_extra << meal id, food id, grams in thousandths, as_treat >>
StoreExtraInputs ==
    { << 1, "fresh:aceite", 40000, TRUE >>, << 1, "fresh:aceite", 0 - 5000, TRUE >>,
      << 1, "fresh:arroz", 0 - 5000, FALSE >> }
\* confirm_item << item id, consumed_g in thousandths, is_confirmed >>
StoreConfirmInputs == { << 1, 40000, TRUE >>, << 1, 0 - 5000, TRUE >> }
\* swap_item << item id, role >>: the first item ever created, and the
\* first item generate_day puts in postre_almuerzo
StoreSwapInputs == { << 1, "hidrato" >>, << 16, "proteina" >> }
\* shopping_add << food id, qty >>
ShoppingInputs == { << "fresh:aceite", 2 >>, << "fresh:nada", 1 >> }
\* shopping_mark_bought item_id
BoughtInputs == {1, 99}
\* ManualFoodBody: a protein food allowed at postre_almuerzo only
ManualInputs ==
    { [nombre |-> "tofu", kcal_100g |-> 76, proteina_100g |-> 8,
       hidratos_100g |-> 2, grasas_100g |-> 4,
       permitido_comidas |-> "postre_almuerzo"] }

GetDayMeals ==
    /\ CallRoom
    /\ \E dd \in Dates :
        Call(get_day_meals(Cur, dd), "get_day_meals", [NoArgs EXCEPT !.day = dd])

StoreSwapItem ==
    /\ CallRoom
    /\ \E a \in StoreSwapInputs :
        /\ \E st \in swap_item(Cur, a[1], a[2]) :
              Commit(st, "swap_item", [NoArgs EXCEPT !.id = a[1], !.role = a[2]])

StoreAddExtra ==
    /\ CallRoom
    /\ \E a \in StoreExtraInputs :
        /\ Call(add_extra(Cur, a[1], a[2], a[3], a[4]), "add_extra",
                [NoArgs EXCEPT !.id = a[1], !.food = a[2], !.grams = a[3], !.flag = a[4]])

StoreConfirmItem ==
    /\ CallRoom
    /\ \E a \in StoreConfirmInputs :
        /\ Call(confirm_item(Cur, a[1], a[2], a[3]), "confirm_item",
                [NoArgs EXCEPT !.id = a[1], !.grams = a[2], !.flag = a[3]])

ShoppingAdd ==
    /\ CallRoom
    /\ \E a \in ShoppingInputs :
        Call(shopping_add(Cur, a[1], a[2]), "shopping_add",
             [NoArgs EXCEPT !.food = a[1], !.grams = a[2]])

ShoppingMarkBought ==
    /\ CallRoom
    /\ \E id \in BoughtInputs :
        Call(shopping_mark_bought(Cur, id), "shopping_mark_bought",
             [NoArgs EXCEPT !.id = id])

CustomFoodManual ==
    /\ CallRoom
    /\ \E body \in ManualInputs :
        Call(custom_food_manual(Cur, body), "custom_food_manual",
             [NoArgs EXCEPT !.food = CustomId(next_custom_id)])

NextStore ==
    \/ SearchFoods
    \/ GetDayMeals
    \/ GenerateDay
    \/ StoreSwapItem
    \/ StoreAddExtra
    \/ StoreConfirmItem
    \/ PantryUpsert
    \/ ShoppingAdd
    \/ ShoppingMarkBought
    \/ CustomFoodManual

SpecStore == Init /\ [][NextStore]_vars

\* -------------------------------------------------------- candidate picker
(***************************************************************************)
(* pick_food on its own: the data frame, the slot and the role are drawn   *)
(* from bounded sets and one step applies the function; the step picks     *)
(* which row the shuffle puts first.  The ledger stays as constructed.     *)
(***************************************************************************)
PickRow(name, role, allowed) ==
    [id |-> name, key |-> name, nombre |-> name, rol_principal |-> role,
     permitido_comidas |-> allowed, kcal_100g |-> 100, proteina_100g |-> 10,
     hidratos_100g |-> 10, grasas_100g |-> 10]

\* rows a CSV file can hold: an empty permitido_comidas cell (read as NaN,
\* filled with ""), single slots, the dessert slot whose key contains
\* "cena", a list of all main slots, and a two-role tag
PickRows ==
    { PickRow("miel", "hidrato", ""), PickRow("avena", "hidrato", "desayuno"),
      PickRow("flan", "hidrato", "postre_cena"), PickRow("pasta", "hidrato", "cena"),
      PickRow("pollo", "proteina", "main"), PickRow("queso", "proteina,grasa", "all") }

PickSlots == {"desayuno", "cena", "postre_cena"}

PickRoles == {"proteina", "hidrato", "grasa", "fibra"}

InitPicker ==
    /\ LedgerInit
    /\ sizer = [phase |-> "idle"]
    /\ threads = NoThreads
    /\ \E rows \in SUBSET PickRows, mk \in PickSlots, r \in PickRoles :
          probe = [phase |-> "input", fn |-> "pick_food", rows |-> rows,
                   meal_key |-> mk, role |-> r]

PickerApply ==
    /\ probe.phase = "input" /\ probe.fn = "pick_food"
    /\ LET pool == pick_from(probe.rows, probe.meal_key, probe.role)
           Done(out) == [phase |-> "done", fn |-> "pick_food", rows |-> probe.rows,
                         meal_key |-> probe.meal_key, role |-> probe.role,
                         out |-> out]
       IN  IF pool = {}
           THEN probe' = Done([ok |-> FALSE, error |-> "IndexError"])
           ELSE \E f \in pool : probe' = Done([ok |-> TRUE, food |-> f])
    /\ UNCHANGED << foods_master, foods_custom, days, meals_by_day, objs, meal_items,
                    pantry, shopping, learning_events, next_meal_id, next_item_id,
                    next_pantry_id, next_shop_id, next_custom_id, last, calls,
                    sizer, threads >>

NextPicker == PickerApply

SpecPicker == InitPicker /\ [][NextPicker]_vars

\* ------------------------------------------------------------ meal targets
(***************************************************************************)
(* meal_targets on its own: a day target is drawn from a bounded set and   *)
(* one step applies the function to the seven keys of MEALS.  The ledger   *)
(* stays as constructed.                                                   *)
(***************************************************************************)
\* the two targets of the code and all small ones
WeightTargets ==
    {TRAIN_TARGET, REST_TARGET} \cup
    [kcal : 0..MaxDayTarget, protein : 0..MaxDayTarget,
     carbs : 0..MaxDayTarget, fat : 0..MaxDayTarget]

InitWeights ==
    /\ LedgerInit
    /\ sizer = [phase |-> "idle"]
    /\ threads = NoThreads
    /\ \E t \in WeightTargets :
          probe = [phase |-> "input", fn |-> "meal_targets", day_t |-> t]

WeightsApply ==
    /\ probe.phase = "input" /\ probe.fn = "meal_targets"
    /\ probe' = [phase |-> "done", fn |-> "meal_targets", day_t |-> probe.day_t,
                 out |-> [i \in 1..Len(MEALS) |-> meal_targets(probe.day_t, MEALS[i])]]
    /\ UNCHANGED << foods_master, foods_custom, days, meals_by_day, objs, meal_items,
                    pantry, shopping, learning_events, next_meal_id, next_item_id,
                    next_pantry_id, next_shop_id, next_custom_id, last, calls,
                    sizer, threads >>

NextWeights == WeightsApply

SpecWeights == InitWeights /\ [][NextWeights]_vars

\* ------------------------------------------------------ concurrent requests
(***************************************************************************)
(* The handlers are plain def functions: the framework runs each request   *)
(* in a worker thread, and the code takes no lock.  Two requests are       *)
(* served at once; a thread can be switched out wherever the handler       *)
(* calls a function, so a step is the code between two such points.        *)
(* generate_day reads _next_item_id for the item's id, calls               *)
(* pantry_status_for_food, reads _next_item_id again for the key of        *)
(* meal_items, appends, and only then increments; add_extra reads and      *)
(* increments before any call.  The rebalance, the increments and the      *)
(* rest of add_extra are taken as single steps.  The threads start in the  *)
(* state left by                                                           *)
(* GET /foods, GET /day d1, GET /day d2: the catalog is loaded and two     *)
(* days exist, with meals 1..7 and 8..14 and no item.  Each thread serves  *)
(* one request, and at most one generate_day runs.                         *)
(***************************************************************************)
Threads == {1, 2}

\* the module's globals as constructed
Constructed ==
    [foods_master |-> {}, foods_custom |-> {}, days |-> << >>,
     meals_by_day |-> << >>, objs |-> << >>, meal_items |-> << >>,
     pantry |-> << >>, shopping |-> << >>, learning_events |-> << >>,
     next_meal_id |-> 1, next_item_id |-> 1, next_pantry_id |-> 1,
     next_shop_id |-> 1, next_custom_id |-> 1, ret |-> "ok", mid |-> NoMid]

\* the globals after GET /foods, GET /day d1, GET /day d2
Served == get_day(get_day(search_foods(Constructed), "d1"), "d2")

\* the requests a thread can serve: << op, day, meal id, food id, grams,
\* as_treat >>
ThreadRequests ==
    { [op |-> "generate_day", day |-> "d1", meal_id |-> 0, food |-> "",
       grams |-> 0, flag |-> FALSE],
      [op |-> "add_extra", day |-> "", meal_id |-> 8, food |-> "fresh:aceite",
       grams |-> 40000, flag |-> TRUE],
      [op |-> "add_extra", day |-> "", meal_id |-> 1, food |-> "fresh:arroz",
       grams |-> 40000, flag |-> FALSE],
      [op |-> "get_day_meals", day |-> "d1", meal_id |-> 0, food |-> "",
       grams |-> 0, flag |-> FALSE] }

NoItem == [id |-> 0]

\* a worker thread: its request, where it is in the handler (pc), its
\* local variables (steps left of the loops, it_id, item), its response
\* (ret, and seen: the meals get_day_meals returned), and whether it ran
\* with no other request in progress when it started (alone)
IdleThread ==
    [pc |-> "idle", req |-> [op |-> ""], steps |-> << >>, it_id |-> 0,
     item |-> NoItem, ret |-> "", seen |-> << >>, alone |-> TRUE]

\* the globals take the values of st; the bookkeeping of the sequential
\* specifications stays
Write(st) ==
    /\ foods_master' = st.foods_master
    /\ foods_custom' = st.foods_custom
    /\ days' = st.days
    /\ meals_by_day' = st.meals_by_day
    /\ objs' = st.objs
    /\ meal_items' = st.meal_items
    /\ pantry' = st.pantry
    /\ shopping' = st.shopping
    /\ learning_events' = st.learning_events
    /\ next_meal_id' = st.next_meal_id
    /\ next_item_id' = st.next_item_id
    /\ next_pantry_id' = st.next_pantry_id
    /\ next_shop_id' = st.next_shop_id
    /\ next_custom_id' = st.next_custom_id
    /\ UNCHANGED << last, calls, sizer, probe >>

InitThreads ==
    /\ foods_master = Served.foods_master
    /\ foods_custom = Served.foods_custom
    /\ days = Served.days
    /\ meals_by_day = Served.meals_by_day
    /\ objs = Served.objs
    /\ meal_items = Served.meal_items
    /\ pantry = Served.pantry
    /\ shopping = Served.shopping
    /\ learning_events = Served.learning_events
    /\ next_meal_id = Served.next_meal_id
    /\ next_item_id = Served.next_item_id
    /\ next_pantry_id = Served.next_pantry_id
    /\ next_shop_id = Served.next_shop_id
    /\ next_custom_id = Served.next_custom_id
    /\ last = [op |-> "get_day", ret |-> "ok", args |-> [NoArgs EXCEPT !.day = "d2"],
               mid |-> NoMid]
    /\ calls = 3
    /\ sizer = [phase |-> "idle"]
    /\ probe = [phase |-> "idle"]
    /\ threads = [t \in Threads |-> IdleThread]

Running(t) == threads[t].pc \notin {"idle", "done"}

\* thread t moves to pc with the globals of st; a failed st ends the request
Step(t, st, pc, th) ==
    /\ Write(st)
    /\ threads' = [threads EXCEPT ![t] =
                      IF st.ret # "ok" THEN [th EXCEPT !.pc = "done", !.ret = st.ret]
                      ELSE IF pc = "done" THEN [th EXCEPT !.pc = "done", !.ret = "ok"]
                      ELSE [th EXCEPT !.pc = pc]]

\* a request arrives and the first free worker thread takes it
ThreadStart(t) ==
    /\ threads[t].pc = "idle"
    /\ \A u \in Threads : u < t => threads[u].pc # "idle"
    /\ \E req \in ThreadRequests :
          /\ req.op = "generate_day" =>
                \A u \in Threads \ {t} : threads[u].req.op # "generate_day"
          /\ threads' = [threads EXCEPT ![t] =
                [IdleThread EXCEPT !.req = req,
                                   !.pc = CASE req.op = "generate_day" -> "g_start"
                                            [] req.op = "add_extra" -> "x_find"
                                            [] OTHER -> "m_read",
                                   !.alone = \A u \in Threads \ {t} : ~Running(u)]]
    /\ UNCHANGED << foods_master, foods_custom, days, meals_by_day, objs, meal_items,
                    pantry, shopping, learning_events, next_meal_id, next_item_id,
                    next_pantry_id, next_shop_id, next_custom_id, last, calls,
                    sizer, probe >>

\* what get_day_meals returns: the day's meals with their item dicts
MealsView(st, dd) ==
    [i \in DOMAIN st.meals_by_day[dd] |->
        [key |-> st.meals_by_day[dd][i].key,
         planned_macros |-> st.meals_by_day[dd][i].planned_macros,
         adjusted_macros |-> st.meals_by_day[dd][i].adjusted_macros,
         items |-> Items(st, st.meals_by_day[dd][i].items)]]

\* get_day_meals in one step
ThreadGetDayMeals(t) ==
    /\ threads[t].pc = "m_read"
    /\ LET st == get_day_meals(Cur, threads[t].req.day)
       IN  Step(t, st, "done",
                [threads[t] EXCEPT !.seen = MealsView(st, threads[t].req.day)])

\* generate_day: ensure_day
ThreadGenEnsure(t) ==
    /\ threads[t].pc = "g_start"
    /\ Step(t, ensure_day(Cur, threads[t].req.day), "g_clear", threads[t])

\* generate_day: the loop that empties the item lists of the day
ThreadGenClear(t) ==
    /\ threads[t].pc = "g_clear"
    /\ LET dd == threads[t].req.day
       IN  Step(t, [Cur EXCEPT !.meals_by_day[dd] =
                       [i \in DOMAIN @ |-> [@[i] EXCEPT !.items = << >>]]],
                "g_build", [threads[t] EXCEPT !.steps = DaySteps])

\* generate_day: pick_food, grams_for_role and the item dict, whose id is
\* _next_item_id as read here
ThreadGenBuild(t) ==
    /\ threads[t].pc = "g_build"
    /\ LET th == threads[t]
           dd == th.req.day
           mi == Head(th.steps)[1]
           role == Head(th.steps)[2]
           m == meals_by_day[dd][mi]
           pool == pick_food(m.key, role)
       IN  IF pool = {} THEN Step(t, Raise(Cur, "500"), "done", th)
           ELSE \E f \in pool :
                  LET mt == meal_targets(day_target(days[dd].is_training), m.key)
                      grams == grams_for_role(f, role, mt)
                  IN  Step(t, Cur, "g_store",
                           [th EXCEPT !.item = NewItem(Cur, next_item_id, m.id, f,
                                                       role, grams, FALSE, FALSE)])

\* generate_day: meal_items[_next_item_id] = item; m["items"].append(item)
ThreadGenStore(t) ==
    /\ threads[t].pc = "g_store"
    /\ LET th == threads[t]
           dd == th.req.day
           mi == Head(th.steps)[1]
           ref == Len(objs) + 1
       IN  Step(t, [Cur EXCEPT !.objs = Append(@, th.item),
                               !.meal_items = Put(@, next_item_id, ref),
                               !.meals_by_day[dd][mi].items = Append(@, ref)],
                "g_inc", th)

\* generate_day: _next_item_id += 1; ensure_shopping_for_item; after the
\* last role of the last meal, the rebalance is next
ThreadGenInc(t) ==
    /\ threads[t].pc = "g_inc"
    /\ LET th == threads[t]
           st == ensure_shopping_for_item([Cur EXCEPT !.next_item_id = @ + 1],
                                          th.item.food.id)
       IN  Step(t, st, IF Tail(th.steps) = << >> THEN "g_recalc" ELSE "g_build",
                [th EXCEPT !.steps = Tail(@), !.item = NoItem])

\* generate_day: recalc_adjusted_keep_targets and the response
ThreadGenRecalc(t) ==
    /\ threads[t].pc = "g_recalc"
    /\ Step(t, recalc_adjusted_keep_targets(Cur, threads[t].req.day), "done", threads[t])

\* add_extra: the meal and the food are looked up, it_id = _next_item_id,
\* _next_item_id += 1
ThreadExtraFind(t) ==
    /\ threads[t].pc = "x_find"
    /\ LET th == threads[t]
       IN  IF FindMeal(Cur, th.req.meal_id) = {} \/ get_food(Cur, th.req.food) = {}
           THEN Step(t, Raise(Cur, "404"), "done", th)
           ELSE Step(t, [Cur EXCEPT !.next_item_id = @ + 1], "x_store",
                     [th EXCEPT !.it_id = next_item_id])

\* add_extra: the item dict, meal_items[it_id] = item, the append,
\* ensure_shopping_for_item, recalc_adjusted_keep_targets, the event and
\* the response
ThreadExtraStore(t) ==
    /\ threads[t].pc = "x_store"
    /\ LET th == threads[t]
           p == CHOOSE x \in FindMeal(Cur, th.req.meal_id) : TRUE
           f == CHOOSE x \in get_food(Cur, th.req.food) : TRUE
           item == NewItem(Cur, th.it_id, th.req.meal_id, f, compute_role(f),
                           th.req.grams, th.req.flag, TRUE)
           ref == Len(objs) + 1
           s1 == [Cur EXCEPT !.objs = Append(@, item),
                             !.meal_items = Put(@, th.it_id, ref),
                             !.meals_by_day[p[1]][p[2]].items = Append(@, ref)]
           s2 == recalc_adjusted_keep_targets(ensure_shopping_for_item(s1, f.id), p[1])
       IN  Step(t, log_event(s2, "add_extra", th.it_id), "done", th)

NextThreads ==
    \E t \in Threads :
        \/ ThreadStart(t)
        \/ ThreadGetDayMeals(t)
        \/ ThreadGenEnsure(t)
        \/ ThreadGenClear(t)
        \/ ThreadGenBuild(t)
        \/ ThreadGenStore(t)
        \/ ThreadGenInc(t)
        \/ ThreadGenRecalc(t)
        \/ ThreadExtraFind(t)
        \/ ThreadExtraStore(t)

SpecThreads == InitThreads /\ [][NextThreads]_vars

\* ------------------------------------------ shopping deriver, two requests
(***************************************************************************)
(* ensure_shopping_for_item under two concurrent requests.  Thread 1       *)
(* serves an add_extra for meal 1 (day d1), thread 2 one for meal 8 (day   *)
(* d2).  The deriver reads the pantry status and looks for a pending       *)
(* entry (one step), calls get_food and starts the entry's dict with       *)
(* "id": _next_shop_id (one step, up to the call of datetime.utcnow), and  *)
(* reads _next_shop_id again for the key, stores and increments (one       *)
(* step).  The threads start in a state left by GET /foods, GET /day d1,   *)
(* GET /day d2 and at most a pantry upsert and a mark_bought.              *)
(***************************************************************************)
DeriverFoods == {"fresh:aceite", "fresh:arroz"}

\* the ledgers the two requests can find
DeriverLedgers ==
    LET out == pantry_upsert(Served, "fresh:aceite", "out", 1, "unit")
    IN  { [s EXCEPT !.mid = NoMid] :
            s \in { Served, out,
                    pantry_upsert(Served, "fresh:aceite", "available", 1, "unit"),
                    shopping_mark_bought(out, 1) } }

InitDeriver ==
    /\ \E s \in DeriverLedgers :
          /\ foods_master = s.foods_master
          /\ foods_custom = s.foods_custom
          /\ days = s.days
          /\ meals_by_day = s.meals_by_day
          /\ objs = s.objs
          /\ meal_items = s.meal_items
          /\ pantry = s.pantry
          /\ shopping = s.shopping
          /\ learning_events = s.learning_events
          /\ next_meal_id = s.next_meal_id
          /\ next_item_id = s.next_item_id
          /\ next_pantry_id = s.next_pantry_id
          /\ next_shop_id = s.next_shop_id
          /\ next_custom_id = s.next_custom_id
    /\ last = [op |-> "get_day", ret |-> "ok", args |-> [NoArgs EXCEPT !.day = "d2"],
               mid |-> NoMid]
    /\ calls = 3
    /\ sizer = [phase |-> "idle"]
    /\ probe = [phase |-> "idle"]
    /\ threads = [t \in Threads |-> IdleThread]

\* thread 1 takes an add_extra for meal 1, thread 2 one for meal 8
DeriverStart(t) ==
    /\ threads[t].pc = "idle"
    /\ \E food \in DeriverFoods :
          threads' = [threads EXCEPT ![t] =
              [IdleThread EXCEPT
                  !.req = [op |-> "add_extra", day |-> "",
                           meal_id |-> IF t = 1 THEN 1 ELSE 8, food |-> food,
                           grams |-> 40000, flag |-> FALSE],
                  !.pc = "x_find",
                  !.alone = \A u \in Threads \ {t} : ~Running(u)]]
    /\ UNCHANGED << foods_master, foods_custom, days, meals_by_day, objs, meal_items,
                    pantry, shopping, learning_events, next_meal_id, next_item_id,
                    next_pantry_id, next_shop_id, next_custom_id, last, calls,
                    sizer, probe >>

\* add_extra: the item dict, meal_items[it_id] = item and the append, up to
\* the call of ensure_shopping_for_item
DeriverExtraStore(t) ==
    /\ threads[t].pc = "x_store"
    /\ LET th == threads[t]
           p == CHOOSE x \in FindMeal(Cur, th.req.meal_id) : TRUE
           f == CHOOSE x \in get_food(Cur, th.req.food) : TRUE
           item == NewItem(Cur, th.it_id, th.req.meal_id, f, compute_role(f),
                           th.req.grams, th.req.flag, TRUE)
           ref == Len(objs) + 1
       IN  Step(t, [Cur EXCEPT !.objs = Append(@, item),
                               !.meal_items = Put(@, th.it_id, ref),
                               !.meals_by_day[p[1]][p[2]].items = Append(@, ref)],
                "s_check", th)

\* ensure_shopping_for_item: the pantry status and the search for a pending
\* entry of the food
DeriverCheck(t) ==
    /\ threads[t].pc = "s_check"
    /\ LET th == threads[t]
       IN  IF \/ pantry_status_for_food(Cur, th.req.food) = "available"
              \/ \E i \in DOMAIN shopping :
                    shopping[i].food.id = th.req.food
                    /\ shopping[i].status = "pending"
           THEN Step(t, Cur, "x_recalc", th)
           ELSE Step(t, Cur, "s_build", th)

\* ensure_shopping_for_item: get_food, and the entry's dict with the id
\* read from _next_shop_id
DeriverBuild(t) ==
    /\ threads[t].pc = "s_build"
    /\ LET th == threads[t]
       IN  IF get_food(Cur, th.req.food) = {}
           THEN Step(t, Raise(Cur, "404"), "done", th)
           ELSE LET f == CHOOSE x \in get_food(Cur, th.req.food) : TRUE
                IN  Step(t, Cur, "s_store",
                         [th EXCEPT !.item =
                             [id |-> next_shop_id,
                              food |-> [id |-> f.id, name |-> f.name],
                              qty |-> 1, status |-> "pending"]])

\* ensure_shopping_for_item: shopping[_next_shop_id] = the dict, and
\* _next_shop_id += 1
DeriverStore(t) ==
    /\ threads[t].pc = "s_store"
    /\ LET th == threads[t]
       IN  Step(t, [Cur EXCEPT !.shopping = Put(@, next_shop_id, th.item),
                               !.next_shop_id = @ + 1],
                "x_recalc", th)

\* add_extra: recalc_adjusted_keep_targets of the meal's day, the event and
\* the response
DeriverExtraRecalc(t) ==
    /\ threads[t].pc = "x_recalc"
    /\ LET th == threads[t]
           p == CHOOSE x \in FindMeal(Cur, th.req.meal_id) : TRUE
       IN  Step(t, log_event(recalc_adjusted_keep_targets(Cur, p[1]),
                             "add_extra", th.it_id), "done", th)

NextDeriver ==
    \E t \in Threads :
        \/ DeriverStart(t)
        \/ ThreadExtraFind(t)
        \/ DeriverExtraStore(t)
        \/ DeriverCheck(t)
        \/ DeriverBuild(t)
        \/ DeriverStore(t)
        \/ DeriverExtraRecalc(t)

SpecDeriver == InitDeriver /\ [][NextDeriver]_vars

\* ------------------------------------------------------ roles of new items
(***************************************************************************)
(* One turn of the loop over a slot's roles, as generate_day and as        *)
(* regenerate_meal run it: pick_food for the slot and the role, the grams, *)
(* and the item dict.  The data frame, the slot and the role of the slot's *)
(* role list are drawn from bounded sets; the step picks the row the       *)
(* shuffle puts first and builds the item both handlers would store for    *)
(* it, on a training day of a ledger as constructed.                       *)
(***************************************************************************)
InitRoles ==
    /\ LedgerInit
    /\ sizer = [phase |-> "idle"]
    /\ threads = NoThreads
    /\ \E rows \in SUBSET PickRows, mk \in PickSlots :
          \E k \in DOMAIN RolesFor(mk) :
              probe = [phase |-> "input", fn |-> "new_item", rows |-> rows,
                       meal_key |-> mk, role |-> RolesFor(mk)[k]]

RolesApply ==
    /\ probe.phase = "input" /\ probe.fn = "new_item"
    /\ LET pool == pick_from(probe.rows, probe.meal_key, probe.role)
           mt == meal_targets(day_target(TRUE), probe.meal_key)
           Done(out) == [phase |-> "done", fn |-> "new_item", rows |-> probe.rows,
                         meal_key |-> probe.meal_key, role |-> probe.role,
                         out |-> out]
           Built(f, stored) ==
               NewItem(Cur, next_item_id, 1, f, stored,
                       grams_for_role(f, probe.role, mt), FALSE, FALSE)
       IN  IF pool = {}
           THEN probe' = Done([ok |-> FALSE, error |-> "IndexError"])
           ELSE \E f \in pool :
                    probe' = Done([ok |-> TRUE, food |-> f,
                                   generated |-> Built(f, probe.role),
                                   regenerated |-> Built(f, compute_role(f))])
    /\ UNCHANGED << foods_master, foods_custom, days, meals_by_day, objs, meal_items,
                    pantry, shopping, learning_events, next_meal_id, next_item_id,
                    next_pantry_id, next_shop_id, next_custom_id, last, calls,
                    sizer, threads >>

NextRoles == RolesApply

SpecRoles == InitRoles /\ [][NextRoles]_vars

\* ------------------------------------------------------------ portion sizer
(***************************************************************************)
(* grams_for_role on its own: the inputs are drawn from bounded sets and   *)
(* one step applies the function.  The ledger stays as constructed.        *)
(***************************************************************************)
SizerRoles == {"proteina", "hidrato", "grasa", "fibra"}

\* meal targets in thousandths: small ones around the clamp bounds, the
\* training day's desayuno target, and the zero vector
SizerTargets ==
    { [kcal |-> 1000, protein |-> 100, carbs |-> 2000, fat |-> 20000],
      [kcal |-> 20000, protein |-> 2000, carbs |-> 100, fat |-> 1000],
      meal_targets(TRAIN_TARGET, "desayuno"),
      macro_dict }

SizerFoods ==
    [kcal_100g : 0..MaxPer100, proteina_100g : 0..MaxPer100,
     hidratos_100g : 0..MaxPer100, grasas_100g : 0..MaxPer100]

InitSizer ==
    /\ LedgerInit
    /\ probe = [phase |-> "idle"]
    /\ threads = NoThreads
    /\ \E f \in SizerFoods, r \in SizerRoles, t \in SizerTargets :
          sizer = [phase |-> "input", food |-> f, role |-> r, target |-> t]

SizerApply ==
    /\ sizer.phase = "input"
    /\ sizer' = [phase |-> "done", food |-> sizer.food, role |-> sizer.role,
                 target |-> sizer.target,
                 grams |-> grams_for_role(sizer.food, sizer.role, sizer.target)]
    /\ UNCHANGED << foods_master, foods_custom, days, meals_by_day, objs, meal_items,
                    pantry, shopping, learning_events, next_meal_id, next_item_id,
                    next_pantry_id, next_shop_id, next_custom_id, last, calls,
                    probe, threads >>

NextSizer == SizerApply

SpecSizer == InitSizer /\ [][NextSizer]_vars

\* ------------------------------------------------------------------ claims
\* the catalog's food dict for a food id (macros per 100 g)
CatalogFood(fid) == CHOOSE f \in LoadedMaster : f.id = fid

ZeroVec == [kcal |-> 0, protein |-> 0, carbs |-> 0, fat |-> 0]

VecAdd(a, b) ==
    [kcal |-> a.kcal + b.kcal, protein |-> a.protein + b.protein,
     carbs |-> a.carbs + b.carbs, fat |-> a.fat + b.fat]

\* macros per 100 g x grams / 100, from the catalog's values
CatalogMacros(it, grams) ==
    LET f == CatalogFood(it.food.id)
    IN  [kcal |-> (f.kcal_100g * grams) \div 100,
         protein |-> (f.proteina_100g * grams) \div 100,
         carbs |-> (f.hidratos_100g * grams) \div 100,
         fat |-> (f.grasas_100g * grams) \div 100]

RECURSIVE CatalogSum(_, _)
CatalogSum(items, key) ==
    IF items = << >> THEN ZeroVec
    ELSE VecAdd(CatalogMacros(Head(items), Head(items)[key]),
                CatalogSum(Tail(items), key))

\* the item dicts of meal i of a day, in list order
MealItemsOf(dd, i) ==
    [k \in DOMAIN meals_by_day[dd][i].items |-> objs[meals_by_day[dd][i].items[k]]]

\* the item dicts of a day, meal by meal
DayItemsOf(dd) == Concat([i \in DOMAIN meals_by_day[dd] |-> MealItemsOf(dd, i)])

RECURSIVE VecSum(_)
VecSum(vs) == IF vs = << >> THEN ZeroVec ELSE VecAdd(Head(vs), VecSum(Tail(vs)))

LedgerOps == {"generate_day", "regenerate_meal", "swap_item", "add_extra",
              "confirm_item", "set_training"}
RebalanceOps == LedgerOps \ {"confirm_item"}

\* the last call was a ledger operation and returned ok
Completed == last.ret = "ok" /\ last.op \in LedgerOps

\* C1: after every completed ledger operation, every meal's planned_macros is
\* the sum over its items of the food's macros per 100 g x planned_g / 100,
\* and its adjusted_macros the same sum with adjusted_g.
C1_MealMacrosAreItemSums ==
    Completed =>
        \A dd \in DOMAIN meals_by_day : \A i \in DOMAIN meals_by_day[dd] :
            /\ meals_by_day[dd][i].planned_macros = CatalogSum(MealItemsOf(dd, i), "planned_g")
            /\ meals_by_day[dd][i].adjusted_macros = CatalogSum(MealItemsOf(dd, i), "adjusted_g")

\* the catalog kcal of a sequence of items at their planned_g
CatalogKcal(items) == CatalogSum(items, "planned_g").kcal

Abs(x) == IF x < 0 THEN 0 - x ELSE x

\* a x b / c without leaving the 32-bit range (a, b >= 0, c > 0)
MulDiv(a, b, c) == (a \div c) * b + ((a % c) * b) \div c

\* C2: after a rebalance of a day whose non-treat items have planned kcal
\* above epsilon, every non-treat item has adjusted_g = clamp(planned_g x
\* scale, 0, 9999) with scale = max(0, target.kcal - treatKcal) /
\* nonTreatKcal (kcal taken to the whole kcal, so grams are compared to
\* within 1 g + 1 %); after GenerateDay on a training day the day's adjusted
\* kcal is 2300 to within that rounding.
C2_RebalanceTracksTarget ==
    (last.ret = "ok" /\ last.op \in RebalanceOps) =>
        \A dd \in DOMAIN days :
            LET its == DayItemsOf(dd)
                treatKcal == CatalogKcal(SelectSeq(its, LAMBDA it : it.is_treat))
                nonTreatKcal == CatalogKcal(SelectSeq(its, LAMBDA it : ~it.is_treat))
                remaining == Max2(0, day_target(days[dd].is_training).kcal * 1000 - treatKcal)
            IN  nonTreatKcal >= 1000 =>
                  /\ \A k \in DOMAIN its :
                        ~its[k].is_treat =>
                            Abs(its[k].adjusted_g -
                                clamp(MulDiv(its[k].planned_g, remaining \div 1000,
                                             nonTreatKcal \div 1000),
                                      0, MaxAdjusted * 1000))
                              <= 1000 + its[k].planned_g \div 100
                  /\ (last.op = "generate_day" /\ days[dd].is_training) =>
                        Abs(days[dd].adjusted.kcal - TRAIN_TARGET.kcal * 1000)
                          <= TRAIN_TARGET.kcal * 10

\* C3: after every completed operation, a day's consumed vector is the sum,
\* over the confirmed items in its meals, of the food's macros per 100 g x
\* consumed_g / 100.
C3_ConsumedIsConfirmedSum ==
    last.ret = "ok" =>
        \A dd \in DOMAIN days :
            days[dd].consumed =
                CatalogSum(SelectSeq(DayItemsOf(dd), LAMBDA it : it.is_confirmed), "consumed_g")

\* C4: after a completed operation, a day's planned and adjusted vectors are
\* the componentwise sums of its seven meals' planned_macros and
\* adjusted_macros.
C4_DaySumsMeals ==
    last.ret = "ok" =>
        \A dd \in DOMAIN days :
            /\ days[dd].planned =
                  VecSum([i \in DOMAIN meals_by_day[dd] |-> meals_by_day[dd][i].planned_macros])
            /\ days[dd].adjusted =
                  VecSum([i \in DOMAIN meals_by_day[dd] |-> meals_by_day[dd][i].adjusted_macros])

\* a generated day is shown and its aggregates were recomputed
C4_Witness ==
    /\ last.op = "generate_day" /\ last.ret = "ok"
    /\ \E dd \in DOMAIN days : Len(DayItemsOf(dd)) = Len(DaySteps)

\* reference r is in the item list of some meal of mbd
InMealOf(mbd, r) ==
    \E dd \in DOMAIN mbd : \E i \in DOMAIN mbd[dd] : r \in Range(mbd[dd][i].items)

\* every treat in a meal has adjusted_g = planned_g
TreatAdjustedIsPlanned ==
    \A r \in DOMAIN objs :
        (objs[r].is_treat /\ InMealOf(meals_by_day, r)) => objs[r].adjusted_g = objs[r].planned_g

\* a step leaves a treat's planned_g alone, and a treat that appears was
\* added by add_extra with the grams of the request
TreatPlannedKept ==
    \A r \in DOMAIN objs' :
        (objs'[r].is_treat /\ InMealOf(meals_by_day', r)) =>
            IF r \in DOMAIN objs
            THEN objs[r].is_treat /\ objs'[r].planned_g = objs[r].planned_g
            ELSE last'.op = "add_extra" /\ objs'[r].planned_g = last'.args.grams

\* C5: in every reachable state every treat item that is in a meal has
\* adjusted_g = planned_g, and its planned_g is the grams it was added with:
\* no step changes it.
C5_TreatInvariance == [] TreatAdjustedIsPlanned /\ [][TreatPlannedKept]_vars

\* a treat is in a meal and the day was rebalanced after it was added
C5_Witness ==
    /\ last.op \in {"swap_item", "set_training"} /\ last.ret = "ok"
    /\ \E r \in DOMAIN objs : objs[r].is_treat /\ InMealOf(meals_by_day, r)
                              /\ objs[r].planned_g > 0

ExpectedRoles(mk) ==
    IF mk \in {"postre_almuerzo", "postre_cena"} THEN << "hidrato", "grasa" >>
    ELSE << "proteina", "hidrato", "grasa" >>

\* C6: after a successful generate_day each of the five main meals holds
\* three items with roles proteina, hidrato, grasa in that order, each of the
\* two desserts two items with roles hidrato, grasa (19 in all), and every
\* item is non-extra, non-treat, unconfirmed, with consumed_g = 0.
C6_GeneratedDayShape ==
    (last.op = "generate_day" /\ last.ret = "ok") =>
        LET dd == last.args.day
        IN  /\ Len(DayItemsOf(dd)) = 19
            /\ \A i \in DOMAIN meals_by_day[dd] :
                  LET its == MealItemsOf(dd, i)
                      want == ExpectedRoles(meals_by_day[dd][i].key)
                  IN  /\ Len(its) = Len(want)
                      /\ \A k \in DOMAIN its :
                            /\ its[k].role = want[k]
                            /\ ~its[k].is_extra /\ ~its[k].is_treat
                            /\ ~its[k].is_confirmed /\ its[k].consumed_g = 0

\* generate_day succeeded on a day that held a confirmed treat extra before
C6_Witness ==
    /\ last.op = "generate_day" /\ last.ret = "ok"
    /\ \E r \in DOMAIN objs :
          /\ objs[r].is_extra /\ objs[r].is_treat /\ objs[r].is_confirmed
          /\ ~InMealOf(meals_by_day, r)
          /\ \E i \in DOMAIN meals_by_day[last.args.day] :
                meals_by_day[last.args.day][i].id = objs[r].meal_id

\* C7: generate_day returns ok whenever the catalog has a food for each of
\* the roles proteina, hidrato and grasa (the catalog here always has), also
\* as the first request of a fresh system; it raises no 404 for a food it
\* picked itself.
C7_GenerateDayCompletes ==
    (last.op = "generate_day"
        /\ \A role \in {"proteina", "hidrato", "grasa"} :
              \E r \in Range(CsvRows) : r.rol_principal = role)
      => last.ret = "ok"

\* C8: when reject_day returns it returns ok, the log holds the reject_day
\* record, and the day's meals hold a freshly generated item set (three per
\* main meal, two per dessert).
C8_RejectDayRegenerates ==
    last.op = "reject_day" =>
        /\ last.ret = "ok"
        /\ \E k \in DOMAIN learning_events : learning_events[k].type = "reject_day"
        /\ \A i \in DOMAIN meals_by_day[last.args.day] :
              Len(meals_by_day[last.args.day][i].items)
                = Len(ExpectedRoles(meals_by_day[last.args.day][i].key))

\* C9: in every reachable state, every non-extra item that is in a meal has
\* planned_g in [10, 400].
C9_GeneratedPortionInRange ==
    \A r \in DOMAIN objs :
        (~objs[r].is_extra /\ InMealOf(meals_by_day, r)) =>
            (10000 <= objs[r].planned_g /\ objs[r].planned_g <= 400000)

\* a generated item was swapped and is still in its meal
C9_Witness ==
    /\ last.op = "swap_item" /\ last.ret = "ok"
    /\ \E r \in DOMAIN objs :
          /\ objs[r].id = last.args.id /\ ~objs[r].is_extra
          /\ InMealOf(meals_by_day, r)

\* x = clamp(floor(num / den), lo, hi), said without dividing
IsClampedQuotient(x, num, den, lo, hi) ==
    \/ x = lo /\ num < (lo + 1) * den
    \/ x = hi /\ num >= hi * den
    \/ lo < x /\ x < hi /\ x * den <= num /\ num < (x + 1) * den

\* C10: for every food, role and meal target: if the food's per-100g value
\* for the role (protein for proteina, fat for grasa, carbs otherwise) is
\* > 0 the portion is clamp(targetComponent / per100 x 100, 10, 400);
\* otherwise if kcal per 100 g > 0 it is clamp(target.kcal / kcal100 x 100,
\* 10, 400); otherwise 50; and the portion is always in [10, 400].
C10_PortionSizer ==
    sizer.phase = "done" =>
        LET f == sizer.food
            t == sizer.target
            per100 == CASE sizer.role = "proteina" -> f.proteina_100g
                        [] sizer.role = "grasa" -> f.grasas_100g
                        [] OTHER -> f.hidratos_100g
            component == CASE sizer.role = "proteina" -> t.protein
                           [] sizer.role = "grasa" -> t.fat
                           [] OTHER -> t.carbs
        IN  /\ per100 > 0 =>
                  IsClampedQuotient(sizer.grams, component * 100, per100, 10000, 400000)
            /\ (per100 = 0 /\ f.kcal_100g > 0) =>
                  IsClampedQuotient(sizer.grams, t.kcal * 100, f.kcal_100g, 10000, 400000)
            /\ (per100 = 0 /\ f.kcal_100g = 0) => sizer.grams = 50000
            /\ 10000 <= sizer.grams /\ sizer.grams <= 400000

\* the kcal fallback sized a portion strictly inside the clamp
C10_Witness ==
    /\ sizer.phase = "done"
    /\ sizer.role = "grasa" /\ sizer.food.grasas_100g = 0 /\ sizer.food.kcal_100g > 0
    /\ 10000 < sizer.grams /\ sizer.grams < 400000 /\ sizer.grams # 50000

\* the meal with this id in mbd: << day_date, index >>, if any
MealAt(mbd, meal_id) ==
    { p \in (DOMAIN mbd) \X (1..Len(MEALS)) : mbd[p[1]][p[2]].id = meal_id }

\* what a rebalance can write: items, aggregates, shopping list
RebalanceView(st) ==
    [objs |-> st.objs, meals_by_day |-> st.meals_by_day, days |-> st.days,
     shopping |-> st.shopping, next_shop_id |-> st.next_shop_id]

\* the day the last request rebalanced
RebalancedDay ==
    CASE last.op \in {"generate_day", "set_training"} -> last.args.day
      [] last.op \in {"regenerate_meal", "add_extra"} ->
            (CHOOSE p \in MealAt(meals_by_day, last.args.id) : TRUE)[1]
      [] last.op = "swap_item" ->
            (CHOOSE p \in MealAt(meals_by_day, objs[meal_items[last.args.id]].meal_id) : TRUE)[1]

\* C11: after a request that ended with a rebalance of a day, a second
\* rebalance of that day, with nothing changed in between, succeeds and
\* leaves every item's adjusted_g, the meals' and the day's aggregates and
\* the shopping list as the first run left them.
C11_RebalanceIdempotent ==
    (last.op \in RebalanceOps /\ last.ret = "ok") =>
        LET s1 == recalc_adjusted_keep_targets(Cur, RebalancedDay)
        IN  s1.ret = "ok" /\ RebalanceView(s1) = RebalanceView(Cur)

\* a day with a treat, a clamped extra or generated items and a shopping
\* list has just been rebalanced by set_training
C11_Witness ==
    /\ last.op = "set_training" /\ last.ret = "ok"
    /\ shopping # << >>
    /\ \E r \in DOMAIN objs : InMealOf(meals_by_day, r) /\ objs[r].is_extra

\* C12: in every reachable state a day none of whose items (those now in
\* its meals) is confirmed has the zero vector as consumed; so it has right
\* after generate_day, whatever was confirmed before.
C12_ConfirmedOnlyConsumption ==
    \A dd \in DOMAIN days :
        (\A k \in DOMAIN DayItemsOf(dd) : ~DayItemsOf(dd)[k].is_confirmed) =>
            days[dd].consumed = ZeroVec

\* generate_day replaced a day's items, one of which had been confirmed with
\* consumed_g > 0
C12_Witness ==
    /\ last.op = "generate_day" /\ last.ret = "ok"
    /\ \A k \in DOMAIN DayItemsOf(last.args.day) : ~DayItemsOf(last.args.day)[k].is_confirmed
    /\ \E r \in DOMAIN objs :
          /\ objs[r].is_confirmed /\ objs[r].consumed_g > 0
          /\ ~InMealOf(meals_by_day, r)
          /\ \E i \in DOMAIN meals_by_day[last.args.day] :
                meals_by_day[last.args.day][i].id = objs[r].meal_id

\* the item lists of all meals, as references
ItemLists(mbd) == [dd \in DOMAIN mbd |-> [i \in DOMAIN mbd[dd] |-> mbd[dd][i].items]]

\* a swap_item step that reached its assignments: what it keeps of the item
\* besides adjusted_g
SwapKeepsRest(old, new) ==
    /\ new.planned_g = old.planned_g
    /\ new.is_confirmed = old.is_confirmed /\ new.consumed_g = old.consumed_g
    /\ new.is_extra = old.is_extra /\ new.is_treat = old.is_treat
    /\ new.id = old.id /\ new.meal_id = old.meal_id
    /\ ItemLists(meals_by_day') = ItemLists(meals_by_day)

\* C13 (as the code has it): swap_item on an existing item replaces the
\* food and the fields derived from it; right before the rebalance the item
\* has the planned_g it had before the swap and adjusted_g equal to that
\* planned_g, and its is_confirmed, consumed_g, is_extra, is_treat, id and
\* position in its meal are unchanged.
C13_SwapKeepsPlanned ==
    [][(last'.op = "swap_item" /\ last'.mid.set) =>
          LET old == objs[meal_items[last'.args.id]]
              new == last'.mid.item
          IN  SwapKeepsRest(old, new) /\ new.adjusted_g = old.planned_g]_vars

\* C13 as stated: right before the rebalance both planned_g and adjusted_g
\* have their values from before the swap, and the rest is unchanged.
C13_SwapKeepsAdjusted ==
    [][(last'.op = "swap_item" /\ last'.mid.set) =>
          LET old == objs[meal_items[last'.args.id]]
              new == last'.mid.item
          IN  SwapKeepsRest(old, new) /\ new.adjusted_g = old.adjusted_g]_vars

\* swap_item succeeded on an item in a meal whose adjusted_g differs from
\* its planned_g (an extra above the 9999 g cap)
C13_Witness ==
    /\ last.op = "swap_item" /\ last.ret = "ok" /\ last.mid.set
    /\ \E r \in DOMAIN objs :
          /\ objs[r].id = last.args.id /\ InMealOf(meals_by_day, r)
          /\ objs[r].adjusted_g # objs[r].planned_g
          /\ last.mid.item.adjusted_g = objs[r].planned_g

\* what add_extra must leave alone in an item
SameButAdjusted(a, b) ==
    /\ a.id = b.id /\ a.food = b.food /\ a.role = b.role /\ a.planned_g = b.planned_g
    /\ a.consumed_g = b.consumed_g /\ a.is_confirmed = b.is_confirmed
    /\ a.is_extra = b.is_extra /\ a.is_treat = b.is_treat

\* C14: a successful add_extra(meal, food, grams, as_treat) appends exactly
\* one new item at the end of the meal, with is_extra, is_treat = as_treat
\* and planned_g = grams, confirmed with consumed_g = grams if as_treat and
\* unconfirmed with consumed_g = 0 otherwise; the items already in the meal
\* keep their order, food, planned_g and flags (and so do all other meals).
C14_AddExtraAppendsOne ==
    [][(last'.op = "add_extra" /\ last'.ret = "ok") =>
          LET a == last'.args
              p == CHOOSE x \in MealAt(meals_by_day, a.id) : TRUE
              before == meals_by_day[p[1]][p[2]].items
              after == meals_by_day'[p[1]][p[2]].items
              new == objs'[after[Len(after)]]
          IN  /\ MealAt(meals_by_day, a.id) # {}
              /\ Len(after) = Len(before) + 1
              /\ SubSeq(after, 1, Len(before)) = before
              /\ after[Len(after)] \notin DOMAIN objs
              /\ new.is_extra /\ new.is_treat = a.flag /\ new.planned_g = a.grams
              /\ new.food.id = a.food
              /\ new.is_confirmed = a.flag
              /\ new.consumed_g = (IF a.flag THEN a.grams ELSE 0)
              /\ \A r \in DOMAIN objs : SameButAdjusted(objs'[r], objs[r])
              /\ \A q \in (DOMAIN meals_by_day) \X (1..Len(MEALS)) :
                    q # p => meals_by_day'[q[1]][q[2]].items = meals_by_day[q[1]][q[2]].items]_vars

\* add_extra appended a treat to a meal that held generated items
C14_Witness ==
    /\ last.op = "add_extra" /\ last.ret = "ok" /\ last.args.flag
    /\ \E p \in MealAt(meals_by_day, last.args.id) :
          LET its == MealItemsOf(p[1], p[2])
          IN  /\ Len(its) = 4
              /\ its[4].is_treat /\ its[4].is_confirmed /\ its[4].consumed_g = last.args.grams
              /\ ~its[1].is_extra

\* C15: a successful confirm_item(item, grams, confirmed) sets only that
\* item's consumed_g and is_confirmed: every other field of it and every
\* other item are unchanged, no meal's item list, planned_macros or
\* adjusted_macros changes, day.planned and day.adjusted are unchanged, and
\* so are the pantry and the shopping list.
C15_ConfirmTouchesOneItem ==
    [][(last'.op = "confirm_item" /\ last'.ret = "ok") =>
          LET a == last'.args
              t == meal_items[a.id]
          IN  /\ DOMAIN objs' = DOMAIN objs
              /\ \A r \in DOMAIN objs : r # t => objs'[r] = objs[r]
              /\ objs'[t] = [objs[t] EXCEPT !.consumed_g = a.grams, !.is_confirmed = a.flag]
              /\ meals_by_day' = meals_by_day
              /\ DOMAIN days' = DOMAIN days
              /\ \A dd \in DOMAIN days :
                    /\ days'[dd].planned = days[dd].planned
                    /\ days'[dd].adjusted = days[dd].adjusted
                    /\ days'[dd].is_training = days[dd].is_training
              /\ pantry' = pantry /\ shopping' = shopping /\ meal_items' = meal_items]_vars

\* a generated item in a meal was confirmed with 40 g
C15_Witness ==
    /\ last.op = "confirm_item" /\ last.ret = "ok" /\ last.args.flag
    /\ \E r \in DOMAIN objs :
          /\ objs[r].id = last.args.id /\ InMealOf(meals_by_day, r)
          /\ objs[r].is_confirmed /\ objs[r].consumed_g = last.args.grams
          /\ objs[r].consumed_g # objs[r].planned_g

\* the item dicts of a day, meal by meal, for given meals and objects
DayItemsIn(mbd, ob, dd) ==
    Concat([i \in DOMAIN mbd[dd] |->
               [k \in DOMAIN mbd[dd][i].items |-> ob[mbd[dd][i].items[k]]]])

\* adjusted_g of a non-treat item after a rebalance to the day's target, as
\* specified (kcal to the whole kcal, grams to within 1 g + 1 %)
RescaledTo(it, its, is_training) ==
    LET treatKcal == CatalogKcal(SelectSeq(its, LAMBDA x : x.is_treat))
        nonTreatKcal == CatalogKcal(SelectSeq(its, LAMBDA x : ~x.is_treat))
        remaining == Max2(0, day_target(is_training).kcal * 1000 - treatKcal)
    IN  nonTreatKcal >= 1000 =>
            Abs(it.adjusted_g -
                clamp(MulDiv(it.planned_g, remaining \div 1000, nonTreatKcal \div 1000),
                      0, MaxAdjusted * 1000))
              <= 1000 + it.planned_g \div 100

\* C16: a successful set_training(date, b) sets the day's is_training to b,
\* so that GET /day reports the target of 2300 kcal if b and 1900 kcal
\* otherwise, and rebalances: every item's food, planned_g, consumed_g and
\* flags are unchanged, every treat's adjusted_g is unchanged, and every
\* non-treat item's adjusted_g is rescaled to the new target.
C16_SetTrainingRescales ==
    [][(last'.op = "set_training" /\ last'.ret = "ok") =>
          LET dd == last'.args.day
              b == last'.args.flag
              its == DayItemsIn(meals_by_day', objs', dd)
          IN  /\ days'[dd].is_training = b
              /\ day_target(days'[dd].is_training).kcal = (IF b THEN 2300 ELSE 1900)
              /\ \A r \in DOMAIN objs :
                    /\ SameButAdjusted(objs'[r], objs[r])
                    /\ objs[r].is_treat => objs'[r].adjusted_g = objs[r].adjusted_g
              /\ \A k \in DOMAIN its :
                    ~its[k].is_treat => RescaledTo(its[k], its, b)]_vars

\* C17: a successful regenerate_meal(meal) replaces the whole item list of
\* that meal by new non-extra, non-treat, unconfirmed items (three for a main
\* meal, two for a dessert); every other meal of the day keeps its items in
\* the same order with unchanged food, planned_g, consumed_g and flags, and
\* the meals, items and aggregates of other days are untouched.
C17_RegenerateMealIsLocal ==
    [][(last'.op = "regenerate_meal" /\ last'.ret = "ok") =>
          LET p == CHOOSE x \in MealAt(meals_by_day, last'.args.id) : TRUE
              after == meals_by_day'[p[1]][p[2]].items
          IN  /\ MealAt(meals_by_day, last'.args.id) # {}
              /\ Len(after) = Len(ExpectedRoles(meals_by_day[p[1]][p[2]].key))
              /\ \A k \in DOMAIN after :
                    /\ after[k] \notin DOMAIN objs
                    /\ ~objs'[after[k]].is_extra /\ ~objs'[after[k]].is_treat
                    /\ ~objs'[after[k]].is_confirmed
              /\ \A q \in (DOMAIN meals_by_day) \X (1..Len(MEALS)) :
                    q # p => meals_by_day'[q[1]][q[2]].items = meals_by_day[q[1]][q[2]].items
              /\ \A r \in DOMAIN objs : SameButAdjusted(objs'[r], objs[r])
              /\ DOMAIN meals_by_day' = DOMAIN meals_by_day
              /\ \A dd \in DOMAIN meals_by_day :
                    dd # p[1] =>
                        /\ meals_by_day'[dd] = meals_by_day[dd]
                        /\ days'[dd] = days[dd]
                        /\ \A k \in DOMAIN DayItemsOf(dd) :
                              DayItemsIn(meals_by_day', objs', dd)[k] = DayItemsOf(dd)[k]]_vars

\* a meal was regenerated while another meal of its day held three items
\* and another day existed
C17_Witness ==
    /\ last.op = "regenerate_meal" /\ last.ret = "ok"
    /\ \E p \in MealAt(meals_by_day, last.args.id) :
          /\ \E i \in DOMAIN meals_by_day[p[1]] :
                i # p[2] /\ Len(meals_by_day[p[1]][i].items) = 3
          /\ \E dd \in DOMAIN meals_by_day : dd # p[1]

\* what accept_day leaves alone whatever the date
AcceptKeepsItems ==
    /\ objs' = objs /\ meal_items' = meal_items /\ next_item_id' = next_item_id
    /\ pantry' = pantry /\ shopping' = shopping /\ next_shop_id' = next_shop_id
    /\ learning_events' = Append(learning_events,
                                 [type |-> "accept_day", id |-> last'.args.day])

\* C18 (as the code has it): accept_day(date) appends an accept_day audit
\* record and leaves every item, the pantry and the shopping list as they
\* were; for a date accessed before, the days, the meals, the aggregates and
\* the meal-id counter are unchanged too; for a date never accessed before
\* it creates the day (training, zero aggregates) with its seven empty meals
\* and advances the meal-id counter by seven, other days unchanged.
C18_AcceptDayCreatesOnly ==
    [][(last'.op = "accept_day" /\ last'.ret = "ok") =>
          LET dd == last'.args.day
          IN  /\ AcceptKeepsItems
              /\ dd \in DOMAIN days =>
                    (days' = days /\ meals_by_day' = meals_by_day
                       /\ next_meal_id' = next_meal_id)
              /\ dd \notin DOMAIN days =>
                    /\ DOMAIN days' = DOMAIN days \cup {dd}
                    /\ \A d \in DOMAIN days :
                          days'[d] = days[d] /\ meals_by_day'[d] = meals_by_day[d]
                    /\ days'[dd].is_training
                    /\ days'[dd].planned = ZeroVec /\ days'[dd].adjusted = ZeroVec
                    /\ days'[dd].consumed = ZeroVec
                    /\ Len(meals_by_day'[dd]) = 7
                    /\ \A i \in 1..7 :
                          /\ meals_by_day'[dd][i].items = << >>
                          /\ meals_by_day'[dd][i].key = MEALS[i]
                          /\ meals_by_day'[dd][i].id = next_meal_id + i - 1
                    /\ next_meal_id' = next_meal_id + 7]_vars

\* C18 as stated: accept_day(date) records the audit event and the days,
\* the meals, the meal-id counter, every item, every aggregate, the pantry
\* and the shopping list are the same after the call as before, for any
\* date.
C18_AcceptDayMutatesNothing ==
    [][(last'.op = "accept_day" /\ last'.ret = "ok") =>
          /\ AcceptKeepsItems
          /\ days' = days /\ meals_by_day' = meals_by_day
          /\ next_meal_id' = next_meal_id]_vars

\* accept_day was the first request for its date, on a system that already
\* held another day, and the date now has its seven empty meals
C18_Witness ==
    /\ last.op = "accept_day" /\ last.ret = "ok"
    /\ "d2" \in DOMAIN days /\ last.args.day \in DOMAIN days
    /\ meals_by_day[last.args.day][1].id = 8
    /\ Len(learning_events) = 1 /\ objs = << >>
    /\ next_meal_id = 15

AuditedOps == {"generate_day", "reject_day", "regenerate_meal", "swap_item",
               "add_extra", "confirm_item", "set_training"}

\* the id an audit record of the request would name
AuditedId ==
    CASE last'.op \in {"generate_day", "reject_day", "set_training"} -> last'.args.day
      [] last'.op = "regenerate_meal" -> last'.args.id
      [] last'.op \in {"swap_item", "confirm_item"} -> last'.args.id
      [] last'.op = "add_extra" -> next_item_id

\* C19: each successful generate_day, reject_day, regenerate_meal,
\* swap_item, add_extra, confirm_item and set_training makes the event log
\* longer by at least one record, the new record naming the operation and
\* the id it was about.
C19_MutationsAreAudited ==
    [][(last'.op \in AuditedOps /\ last'.ret = "ok") =>
          /\ Len(learning_events') >= Len(learning_events) + 1
          /\ SubSeq(learning_events', 1, Len(learning_events)) = learning_events
          /\ learning_events'[Len(learning_events')] =
                [type |-> last'.op, id |-> AuditedId]]_vars

\* the request of the step names a meal, an item or a food that does not
\* exist before the step
UnknownId ==
    \/ last'.op \in {"regenerate_meal", "add_extra"}
          /\ MealAt(meals_by_day, last'.args.id) = {}
    \/ last'.op \in {"swap_item", "confirm_item"}
          /\ last'.args.id \notin DOMAIN meal_items
    \/ last'.op = "add_extra"
          /\ \A f \in foods_master \cup foods_custom : f.id # last'.args.food

\* C20: regenerate_meal or add_extra with an unknown meal id, swap_item or
\* confirm_item with an unknown item id, and add_extra with an unknown food
\* id end in 404, with days, meals, items, aggregates, pantry, shopping
\* list, event log and id counters as before the call.
C20_UnknownIdChangesNothing ==
    [][UnknownId =>
          /\ last'.ret = "404"
          /\ UNCHANGED << foods_master, foods_custom, days, meals_by_day, objs,
                          meal_items, pantry, shopping, learning_events,
                          next_meal_id, next_item_id, next_pantry_id,
                          next_shop_id, next_custom_id >>]_vars

\* add_extra named a food that is in no catalog, for a meal that exists,
\* on a system that holds items
C20_Witness ==
    /\ last.op = "add_extra" /\ last.ret = "404"
    /\ MealAt(meals_by_day, last.args.id) # {}
    /\ foods_master # {} /\ objs # << >>
    /\ \A f \in foods_master \cup foods_custom : f.id # last.args.food
\* ---------------------------------------------------------------- C21
\* C21: add_extra with grams < 0 and confirm_item with consumed_g < 0 are
\* refused (the call does not return ok), and no item of the ledger has a
\* negative planned_g, adjusted_g or consumed_g.
C21_NegativeGramsRejected ==
    /\ (last.op \in {"add_extra", "confirm_item"} /\ last.args.grams < 0) =>
            last.ret # "ok"
    /\ \A id \in DOMAIN meal_items :
            LET it == objs[meal_items[id]]
            IN  it.planned_g >= 0 /\ it.adjusted_g >= 0 /\ it.consumed_g >= 0

\* ---------------------------------------------------------------- C22
\* the rows whose role tag contains the role
RoleMatches(rows, role) == { r \in rows : StrContains(r.rol_principal, role) }

\* the rows matching the role that are eligible for the slot: the set of
\* allowed slots is empty or holds the slot
SlotEligible(rows, slot, role) ==
    { r \in RoleMatches(rows, role) :
        Words(r.permitido_comidas) = {} \/ slot \in Words(r.permitido_comidas) }

\* C22: a selected food's role tag contains the role; when some food
\* matches the role and is eligible for the slot (no allowed slots, or the
\* slot among them), the selected food is one of the eligible ones.
C22_SelectionHonoursSlot ==
    (probe.phase = "done" /\ probe.fn = "pick_food" /\ probe.out.ok) =>
        LET f == probe.out.food
            eligible == SlotEligible(probe.rows, probe.meal_key, probe.role)
        IN  /\ StrContains(f.rol_principal, probe.role)
            /\ f.id \in { r.id : r \in RoleMatches(probe.rows, probe.role) }
            /\ eligible # {} => f.id \in { r.id : r \in eligible }

\* ---------------------------------------------------------------- C23
\* the key of the meal holding the item with this id
SlotOfItem(id) ==
    LET p == CHOOSE x \in MealAt(meals_by_day, objs[meal_items[id]].meal_id) : TRUE
    IN  meals_by_day[p[1]][p[2]].key

\* C23: when swap_item returns ok and the only foods, catalog and
\* user-defined together, that match the requested role and are eligible
\* for the item's slot are user-defined, the item holds one of them.
\* (generate_day and regenerate_meal select through the same pick_food.)
C23_CustomFoodsInPool ==
    [][(last'.op = "swap_item" /\ last'.ret = "ok") =>
          LET id == last'.args.id
              eligible == SlotEligible(foods_master \cup foods_custom,
                                       SlotOfItem(id), last'.args.role)
          IN  (eligible # {} /\ eligible \subseteq foods_custom) =>
                  objs'[meal_items'[id]].food.id \in { f.id : f \in eligible }]_vars

\* ---------------------------------------------------------------- C24
\* the last request was a swap_item of an existing item for a role that no
\* food's role tag contains
NoRoleMatch ==
    /\ last.op = "swap_item"
    /\ last.args.id \in DOMAIN meal_items
    /\ RoleMatches(Range(CsvRows) \cup foods_custom, last.args.role) = {}

\* C24: a selection for a role that no food's tag contains ends in the
\* no-candidate error, reported by the operation that asked for it; a
\* selecting operation that fails otherwise than with a not-found or an
\* invalid-input error fails with the no-candidate error, and only in that
\* situation.
C24_NoCandidateSurfaced ==
    /\ NoRoleMatch => last.ret = "no_candidate"
    /\ (last.op \in {"generate_day", "regenerate_meal", "swap_item"}
        /\ last.ret \notin {"ok", "400", "404"}) =>
            (last.ret = "no_candidate" /\ NoRoleMatch)

\* ---------------------------------------------------------------- C25
\* the pending shopping entries of a food
PendingOf(food_id) ==
    { i \in DOMAIN shopping :
        shopping[i].food.id = food_id /\ shopping[i].status = "pending" }

\* C25: no food has two pending shopping entries; after an add_extra or a
\* pantry_upsert, which run the shopping-deriver for their food, a food
\* whose pantry status is not available has exactly one.
C25_OnePendingPerFood ==
    /\ \A i, j \in DOMAIN shopping :
          (shopping[i].status = "pending" /\ shopping[j].status = "pending"
           /\ shopping[i].food.id = shopping[j].food.id) => i = j
    /\ (last.op \in {"add_extra", "pantry_upsert"} /\ last.ret = "ok"
        /\ pantry_status_for_food(Cur, last.args.food) # "available") =>
            Cardinality(PendingOf(last.args.food)) = 1

\* the pantry says out, and an add_extra ran the deriver for that food
\* again: once for the item, once more in the rebalance
C25_Witness ==
    /\ last.op = "add_extra" /\ last.ret = "ok"
    /\ pantry_status_for_food(Cur, last.args.food) = "out"
    /\ Cardinality(PendingOf(last.args.food)) = 1
    /\ Len(learning_events) >= 1

\* ---------------------------------------------------------------- C26
\* the ids of the foods of the catalog, of the user and of the shopping list
KnownFoodIds ==
    { f.id : f \in foods_master \cup foods_custom }
        \cup { shopping[i].food.id : i \in DOMAIN shopping }

\* some item in a meal's list references the food
Referenced(food_id) ==
    \E dd \in DOMAIN meals_by_day :
        \E i \in DOMAIN meals_by_day[dd] :
            \E k \in DOMAIN meals_by_day[dd][i].items :
                objs[meals_by_day[dd][i].items[k]].food.id = food_id

\* a pending entry of the food is on the list only with an item that
\* references the food (it may outlive the pantry status that caused it)
PendingOnlyIfReferenced ==
    \A f \in KnownFoodIds : PendingOf(f) # {} => Referenced(f)

\* a referenced food that the pantry does not hold as available has a
\* pending entry
PendingIfNeeded ==
    \A f \in KnownFoodIds :
        (Referenced(f) /\ pantry_status_for_food(Cur, f) # "available") =>
            PendingOf(f) # {}

\* C26: a food has a pending shopping entry if and only if an item of the
\* ledger references it and its pantry status is not available, except
\* that a pending entry may stay when the status becomes available later.
C26_PendingIffNeeded == PendingOnlyIfReferenced /\ PendingIfNeeded

\* ---------------------------------------------------------------- C27
\* every day has its seven meals, in the order of MEALS, and every list of
\* meals belongs to a day
SevenMealsPerDay ==
    /\ DOMAIN days = DOMAIN meals_by_day
    /\ \A dd \in DOMAIN meals_by_day :
          /\ Len(meals_by_day[dd]) = Len(MEALS)
          /\ \A i \in 1..Len(MEALS) :
                /\ meals_by_day[dd][i].key = MEALS[i]
                /\ meals_by_day[dd][i].day_date = dd

\* a step keeps the ids and keys of the meals of every day that exists
MealsKept ==
    \A dd \in DOMAIN meals_by_day :
        /\ dd \in DOMAIN meals_by_day'
        /\ Len(meals_by_day'[dd]) = Len(meals_by_day[dd])
        /\ \A i \in DOMAIN meals_by_day[dd] :
              /\ meals_by_day'[dd][i].id = meals_by_day[dd][i].id
              /\ meals_by_day'[dd][i].key = meals_by_day[dd][i].key

\* C27: every day that exists has exactly seven meals, one per key of
\* MEALS in that order, made when the day is made; no step adds, removes,
\* reorders or re-keys the meals of a day or changes the id of a meal.
C27_SevenFixedMeals == [] SevenMealsPerDay /\ [][MealsKept]_vars

\* two days exist and a meal of one of them was regenerated
C27_Witness ==
    /\ Cardinality(DOMAIN days) = 2
    /\ last.op = "regenerate_meal" /\ last.ret = "ok"
    /\ \E dd \in DOMAIN meals_by_day :
          \E i \in DOMAIN meals_by_day[dd] : meals_by_day[dd][i].items # << >>

\* ---------------------------------------------------------------- C30
\* the sum of the weights of the seven slots, in thousandths
RECURSIVE WeightSum(_)
WeightSum(keys) ==
    IF keys = << >> THEN 0 ELSE MEAL_WEIGHTS[Head(keys)] + WeightSum(Tail(keys))

\* C30: the seven weights sum to 1.0 (1000 thousandths), and the meal
\* targets of the seven slots sum to the day target on kcal, protein,
\* carbs and fat (in thousandths of the day target's unit).
C30_WeightsSumToOne ==
    /\ WeightSum(MEALS) = 1000
    /\ (probe.phase = "done" /\ probe.fn = "meal_targets") =>
          VecSum(probe.out) = [kcal |-> probe.day_t.kcal * 1000,
                               protein |-> probe.day_t.protein * 1000,
                               carbs |-> probe.day_t.carbs * 1000,
                               fat |-> probe.day_t.fat * 1000]

\* the seven slot targets of the training day were computed
C30_Witness ==
    /\ probe.phase = "done" /\ probe.fn = "meal_targets"
    /\ probe.day_t = TRAIN_TARGET
    /\ Len(probe.out) = 7 /\ probe.out[1].kcal = 506000

\* ---------------------------------------------------------------- C28
\* the day a thread's request works on
DayOfRequest(req) ==
    IF req.op = "add_extra"
    THEN (CHOOSE x \in MealAt(meals_by_day, req.meal_id) : TRUE)[1]
    ELSE req.day

\* both threads serve, or have served, requests that create items
BothCreate ==
    \A t \in Threads : threads[t].req.op \in {"generate_day", "add_extra"}

\* no two item dicts have the same id, and meal_items holds every item
\* dict under the dict's own id
ItemIdsDistinct ==
    /\ \A r1, r2 \in DOMAIN objs : objs[r1].id = objs[r2].id => r1 = r2
    /\ \A r \in DOMAIN objs :
          objs[r].id \in DOMAIN meal_items /\ meal_items[objs[r].id] = r

\* C28: while and after two requests that create items on different days
\* are served, however their steps interleave, all items have distinct
\* ids and each is found in meal_items under its own id.
C28_DistinctItemIds ==
    (BothCreate /\ DayOfRequest(threads[1].req) # DayOfRequest(threads[2].req)) =>
        ItemIdsDistinct

\* ---------------------------------------------------------------- C29
\* the number of generated (not extra) items in a returned meal
GeneratedIn(meal) ==
    Cardinality({ k \in DOMAIN meal.items : ~meal.items[k].is_extra })

\* the meals a reader was given are those of a day before generate_day
\* (no generated item) or after it (every meal has its roles)
SeenWhole(seen) ==
    \/ \A i \in DOMAIN seen : GeneratedIn(seen[i]) = 0
    \/ \A i \in DOMAIN seen : GeneratedIn(seen[i]) = Len(RolesFor(seen[i].key))

\* an extra appended after the day was last emptied is in its meal's list:
\* no generate_day was asked for, or some generated item is older
NoLostAppend ==
    \A e \in DOMAIN objs :
        (objs[e].is_extra
         /\ (\/ \A t \in Threads : threads[t].req.op # "generate_day"
             \/ \E g \in 1..(e - 1) : ~objs[g].is_extra)) =>
            \E p \in MealAt(meals_by_day, objs[e].meal_id) :
                \E k \in DOMAIN meals_by_day[p[1]][p[2]].items :
                    meals_by_day[p[1]][p[2]].items[k] = e

\* C29: a request runs as one unit with respect to the others on its day:
\* what get_day_meals returns is never the day half way through a
\* generate_day, and no append to an item list is lost.
C29_RequestsAreAtomic ==
    /\ \A t \in Threads :
          (threads[t].req.op = "get_day_meals" /\ threads[t].pc = "done") =>
              SeenWhole(threads[t].seen)
    /\ NoLostAppend


\* ---------------------------------------------------------------- C31
\* the pantry entries of a food
PantryOf(p, food_id) == { i \in DOMAIN p : p[i].food.id = food_id }

\* no two pantry entries are of the same food
OneEntryPerFood ==
    \A i, j \in DOMAIN pantry : pantry[i].food.id = pantry[j].food.id => i = j

\* a completed pantry_upsert: with an entry of the food, that entry takes the
\* request's status, quantity and unit, its id is returned and no entry is
\* added; with none, one entry is added under a new id, which is returned
UpsertInPlace ==
    (last'.op = "pantry_upsert" /\ last'.ret = "ok") =>
        LET a == last'.args
            hits == PantryOf(pantry, a.food)
        IN  /\ last'.mid.set
            /\ IF hits # {}
               THEN /\ last'.mid.id \in hits
                    /\ pantry' = [pantry EXCEPT
                                     ![last'.mid.id].status = a.role,
                                     ![last'.mid.id].qty = a.grams,
                                     ![last'.mid.id].unit = a.unit]
               ELSE /\ last'.mid.id \notin DOMAIN pantry
                    /\ DOMAIN pantry' = DOMAIN pantry \cup {last'.mid.id}
                    /\ \A i \in DOMAIN pantry : pantry'[i] = pantry[i]
                    /\ pantry'[last'.mid.id].food.id = a.food
                    /\ pantry'[last'.mid.id].status = a.role
                    /\ pantry'[last'.mid.id].qty = a.grams
                    /\ pantry'[last'.mid.id].unit = a.unit

\* C31: in every reachable state the pantry holds at most one entry per
\* food; a pantry upsert for a food that has an entry updates that entry's
\* status, quantity and unit in place and returns its id, and creates a new
\* entry only when there is none.
C31_OneEntryPerFood == [] OneEntryPerFood /\ [][UpsertInPlace]_vars

\* an upsert has just updated in place the entry that an earlier upsert
\* with status out created (the deriver's entry of quantity 1 is its trace)
C31_Witness ==
    /\ last.op = "pantry_upsert" /\ last.ret = "ok"
    /\ last.args.food = "fresh:aceite" /\ last.args.role = "available"
    /\ last.mid.set /\ last.mid.id = 1
    /\ DOMAIN pantry = {1} /\ pantry[1].status = "available"
    /\ objs = << >>
    /\ \E i \in DOMAIN shopping :
           shopping[i].food.id = "fresh:aceite" /\ shopping[i].qty = 1


\* ---------------------------------------------------------------- C32
\* the items that are in a meal's list
ListedItems ==
    { objs[r] : r \in UNION { Range(meals_by_day[dd][i].items) :
                                 dd \in DOMAIN meals_by_day, i \in 1..Len(MEALS) } }

AdjustedInRange ==
    \A it \in ListedItems :
        ~it.is_treat => (0 <= it.adjusted_g /\ it.adjusted_g <= MaxAdjusted * 1000)

FailedPartWay ==
    /\ last'.ret # "ok"
    /\ \/ last'.op = "generate_day" /\ last'.args.day \in DOMAIN days
       \/ last'.op = "regenerate_meal" /\ MealAt(meals_by_day, last'.args.id) # {}

\* C33: a GenerateDay or RegenerateMeal that ends in an error part-way
\* through has no visible effect: the meals hold the same items as before
\* the call, and the day's aggregates, the shopping list and the item-id
\* lookup are unchanged.
C33_FailedGenerationHasNoEffect ==
    [][FailedPartWay =>
          /\ meals_by_day' = meals_by_day
          /\ days' = days
          /\ shopping' = shopping
          /\ meal_items' = meal_items]_vars


\* ---------------------------------------------------------------- C34
\* no food has two pending entries, and once both requests are answered a
\* food that was asked for and is not available in the pantry has one
OnePendingUnderThreads ==
    \A food \in DeriverFoods :
        /\ Cardinality(PendingOf(food)) <= 1
        /\ ((\A t \in Threads : threads[t].pc = "done" /\ threads[t].ret = "ok")
            /\ (\E t \in Threads : threads[t].req.food = food)
            /\ pantry_status_for_food(Cur, food) # "available") =>
               Cardinality(PendingOf(food)) = 1

\* a shopping entry stays under its key, as it is
ShoppingKept ==
    \A i \in DOMAIN shopping : i \in DOMAIN shopping' /\ shopping'[i] = shopping[i]

\* C34: the shopping deriver stays idempotent under concurrency: when two
\* operations on different days derive a requirement for the same food with
\* their check and insert steps interleaved, the list ends with exactly one
\* pending entry for that food, and no entry is overwritten or lost.
C34_DeriverIdempotentUnderThreads ==
    [] OnePendingUnderThreads /\ [][ShoppingKept]_vars


\* ---------------------------------------------------------------- C35
\* the event log before the step is the beginning of the log after it
LogExtended ==
    /\ Len(learning_events) <= Len(learning_events')
    /\ SubSeq(learning_events', 1, Len(learning_events)) = learning_events

\* every request with its outcomes in the globals st: << op, input, the
\* globals it leaves >>
Outcomes(st) ==
    { << "search_foods", << >>, search_foods(st) >> }
    \cup { << "get_day", dd, get_day(st, dd) >> : dd \in ReadDates }
    \cup { << "set_training", x, set_training(st, x[1], x[2]) >> :
              x \in Dates \X BOOLEAN }
    \cup UNION { { << "generate_day", dd, s >> :
                      s \in generate_day(st, [kind |-> "dict", day_date |-> dd]) } :
                 dd \in Dates }
    \cup { << "accept_day", dd, accept_day(st, dd) >> : dd \in Dates }
    \cup UNION { { << "reject_day", dd, s >> : s \in reject_day(st, dd) } :
                 dd \in Dates }
    \cup UNION { { << "regenerate_meal", id, s >> : s \in regenerate_meal(st, id) } :
                 id \in RegenInputs }
    \cup UNION { { << "swap_item", a, s >> : s \in swap_item(st, a[1], a[2]) } :
                 a \in SwapInputs }
    \cup { << "add_extra", a, add_extra(st, a[1], a[2], a[3], a[4]) >> :
              a \in ExtraInputs }
    \cup { << "confirm_item", a, confirm_item(st, a[1], a[2], a[3]) >> :
              a \in ConfirmInputs }

\* the outcomes of the requests in st, each with the records it appended in
\* place of the whole log
Appended(st) ==
    { << o[1], o[2],
         [o[3] EXCEPT !.learning_events =
             SubSeq(@, Len(st.learning_events) + 1, Len(@))] >> :
      o \in Outcomes(st) }

\* where a request can be served, every request has the same results, the
\* same effects and the same new records when the log holds one foreign
\* record instead of its content
LogBlind ==
    CallRoom =>
        Appended(Cur) =
            Appended([Cur EXCEPT !.learning_events = << [type |-> "other", id |-> 0] >>])

\* C35: the event log is append-only: its length never decreases and no
\* record in it is modified or removed, and no operation's result or ledger
\* effect depends on the log's content.
C35_LogAppendOnly == [] LogBlind /\ [][LogExtended]_vars

\* a record has been appended to a log that held two, which are still its
\* first two, after a request that failed (reject_day)
C35_Witness ==
    /\ Len(learning_events) = 3
    /\ learning_events[3].type = "confirm_item"
    /\ \E k \in 1..2 : learning_events[k].type = "reject_day"
    /\ last.op = "confirm_item" /\ last.ret = "ok"


\* ---------------------------------------------------------------- C36
\* C36: an item created by regenerate_meal carries the same role as the item
\* generate_day creates for the same slot, role and food: the role of the
\* slot's role list for which the food was selected, not a value derived
\* from the food's own role tag.
C36_RegeneratedRoleIsAssignedRole ==
    (probe.phase = "done" /\ probe.fn = "new_item" /\ probe.out.ok) =>
        /\ probe.out.generated.role = probe.role
        /\ probe.out.regenerated.role = probe.out.generated.role


\* ---------------------------------------------------------------- C37
\* the << day, meal index, position >> of every entry of a meal's list
ListSlots ==
    { p \in (DOMAIN meals_by_day) \X (1..Len(MEALS)) \X (1..Len(objs)) :
        p[3] \in DOMAIN meals_by_day[p[1]][p[2]].items }

SlotRef(p) == meals_by_day[p[1]][p[2]].items[p[3]]

\* ids are unique and below the counter; a listed item is in the lookup
\* under its own id and names the meal that lists it; no item is listed twice
ItemIdsSound ==
    /\ \A r1, r2 \in DOMAIN objs : objs[r1].id = objs[r2].id => r1 = r2
    /\ \A r \in DOMAIN objs : objs[r].id >= 1 /\ objs[r].id < next_item_id
    /\ \A p \in ListSlots :
          LET it == objs[SlotRef(p)]
          IN  /\ it.id \in DOMAIN meal_items
              /\ meal_items[it.id] = SlotRef(p)
              /\ it.meal_id = meals_by_day[p[1]][p[2]].id
    /\ \A p, q \in ListSlots : SlotRef(p) = SlotRef(q) => p = q

\* an id stays with its item, and a new item's id is the counter's value or
\* above, which is greater than every id issued before
IdsIssuedUpwards ==
    /\ next_item_id' >= next_item_id
    /\ Len(objs') >= Len(objs)
    /\ \A r \in DOMAIN objs : objs'[r].id = objs[r].id
    /\ \A r \in DOMAIN objs' \ DOMAIN objs :
          /\ objs'[r].id >= next_item_id
          /\ \A q \in DOMAIN objs : objs'[r].id > objs[q].id

\* C37: under sequential execution item ids are unique and never reused:
\* every item created by generate_day, regenerate_meal or add_extra gets an
\* id strictly greater than every id issued before, each item in a meal's
\* list is in the item lookup under its own id with meal_id equal to that
\* meal's id, and no item appears in two meals.
C37_ItemIdsUnique == [] ItemIdsSound /\ [][IdsIssuedUpwards]_vars

\* ids have been issued by generate_day (1..19), regenerate_meal (20..22)
\* and add_extra (23)
C37_Witness ==
    /\ last.op = "add_extra" /\ last.ret = "ok"
    /\ next_item_id = 24 /\ Len(objs) = 23
    /\ \E k \in DOMAIN learning_events : learning_events[k].type = "regenerate_meal"
    /\ \E r \in DOMAIN objs : objs[r].is_extra /\ objs[r].id = 23


\* ---------------------------------------------------------------- C38
\* the ids of the items that are in no meal's list any more
ReplacedIds ==
    { objs[r].id : r \in DOMAIN objs \ { SlotRef(p) : p \in ListSlots } }

\* every item dict ever stored is in meal_items under its id
LookupKeepsAll ==
    \A r \in DOMAIN objs :
        objs[r].id \in DOMAIN meal_items /\ meal_items[objs[r].id] = r

\* no key leaves meal_items; a confirm_item addressed to a replaced item
\* returns ok, writes the item and changes no meal's list and no day's
\* vectors; a swap_item addressed to a replaced item is not answered with
\* the item's 404, and returns ok when the catalog is loaded and holds a
\* food of the role
ReplacedStillServed ==
    /\ \A k \in DOMAIN meal_items :
          k \in DOMAIN meal_items' /\ meal_items'[k] = meal_items[k]
    /\ (last'.op = "confirm_item" /\ last'.args.id \in ReplacedIds) =>
          /\ last'.ret = "ok"
          /\ objs'[meal_items[last'.args.id]].consumed_g = last'.args.grams
          /\ ItemLists(meals_by_day') = ItemLists(meals_by_day)
          /\ days' = days
    /\ (last'.op = "swap_item" /\ last'.args.id \in ReplacedIds) =>
          /\ last'.ret = "404" => last'.mid.set
          /\ (foods_master # {}
              /\ RoleMatches(Range(CsvRows), last'.args.role) # {}) =>
                 last'.ret = "ok"

=============================================================================
